---- MODULE Spec2Model ----
(***************************************************************************)
(* Verification model of the neurite engine of Neuron-Modeler               *)
(* (src/neural.rs).                                                         *)
(*                                                                          *)
(* Spec     : the dendritic tree.  A pool of neurites, each behind an       *)
(*            Rc<RefCell<Neurite>>, mutated through add_child, set_parent,  *)
(*            remove_child and prune_child.                                 *)
(* SpecDyn  : the dynamic state of one neurite under Neurite::new,          *)
(*            set_spike_model, reset and process.                           *)
(* SpecElec : one electrode (Pulse, Pulsating, Sinusoidal or Poisson) under *)
(*            on, off and process.                                          *)
(* SpecStp  : one ShortTermPlasticity under learn.                         *)
(* SpecSyn  : one synapse with its presynaptic source.                      *)
(* SpecPair : two PoissonElectrodes built and driven alike.                 *)
(*                                                                          *)
(* f64 values are held in fixed point, in thousandths (every literal of the *)
(* preset tables has at most three decimals).                               *)
(***************************************************************************)
EXTENDS Integers, Sequences, FiniteSets, TLC

VARIABLES
    ntype,      \* neurite -> NeuriteType            (Neurite.neurite_type)
    child,      \* neurite -> sequence of neurites   (Neurite.child)
    parent,     \* neurite -> neurite or None        (Neurite.parent)
    last,       \* the last tree call: operation, receiver, argument, result
    neurite,    \* SpecDyn: the fields of the neurite under simulation
    out,        \* SpecDyn: the last call and what it returned
    steps,      \* SpecDyn: number of process calls made so far
    el,         \* SpecElec: the fields of the electrode under test
    hist,       \* SpecElec: the last electrode call, its result, and the run so far
    stp,        \* SpecStp: the fields of the ShortTermPlasticity
    learned,    \* SpecStp: the last learn call and what it returned
    syn,        \* SpecSyn: the fields of the synapse
    sensor,     \* SpecSyn: what the presynaptic Sensor's output() returns
    synout,     \* SpecSyn: the last synapse call and what it returned
    pair        \* SpecPair: the two electrodes and their last results

vars == <<ntype, child, parent, last, neurite, out, steps, el, hist,
          stp, learned, syn, sensor, synout, pair>>

treeVars == <<ntype, child, parent, last>>
dynVars == <<neurite, out, steps>>
elVars == <<el, hist>>
stpVars == <<stp, learned>>
synVars == <<syn, sensor, synout>>
pairVars == <<pair>>

None == 0

\* Total number of child-list entries the model lets the pool hold.
MaxEdges == 3

----------------------------------------------------------------------------
(* NeuriteType and the pools of neurites the tree operations are run on.   *)

NeuriteType == {"Soma", "BasalProximal", "BasalDistal", "ApicalTrunk", "ApicalTuft", "Axon"}

\* Each pool is four neurites created by Neurite::new with the listed types.
\* Together the pools hold every ordered pair of types on two distinct
\* neurites.
Pools ==
    { <<"Soma", "BasalProximal", "BasalProximal", "BasalDistal">>,
      <<"Soma", "ApicalTrunk", "ApicalTrunk", "ApicalTuft">>,
      <<"Soma", "Axon", "Axon", "Soma">>,
      <<"BasalDistal", "BasalDistal", "ApicalTuft", "ApicalTuft">>,
      <<"BasalProximal", "ApicalTrunk", "Axon", "BasalDistal">>,
      <<"ApicalTuft", "Axon", "BasalProximal", "ApicalTrunk">>,
      <<"Soma", "BasalDistal", "ApicalTuft", "Axon">>,
      <<"BasalDistal", "ApicalTrunk", "Axon", "ApicalTuft">>,
      <<"BasalProximal", "ApicalTuft", "Soma", "ApicalTrunk">> }

Neurites == 1..4

TotalEdges == LET RECURSIVE Sum(_)
                  Sum(S) == IF S = {} THEN 0
                            ELSE LET n == CHOOSE x \in S : TRUE
                                 IN Len(child[n]) + Sum(S \ {n})
              IN Sum(Neurites)

\* A panic unwinds out of the engine: nothing is called afterwards.
Panicked == last.ret = "panic"

Call(op, n, arg, ret) == [op |-> op, n |-> n, arg |-> arg, ret |-> ret]

----------------------------------------------------------------------------
(* Neurite::add_child                                                       *)

HasChildOfType(p, t) == \E i \in 1..Len(child[p]) : ntype[child[p][i]] = t

\* The match of add_child: "push" where the arm pushes the child, "Err"
\* where it returns Err.
AddChildOutcomeNoApicalCheck(p, c) ==
    LET pt == ntype[p]
        ct == ntype[c]
    IN CASE pt = "Soma" ->
              (CASE ct = "Soma" -> "Err"
                 [] ct = "BasalProximal" -> "push"
                 [] ct = "BasalDistal" -> "Err"
                 [] ct = "ApicalTrunk" -> "push"
                 [] ct = "ApicalTuft" -> "Err"
                 [] ct = "Axon" -> IF HasChildOfType(p, "Axon") THEN "Err" ELSE "push")
         [] pt = "BasalProximal" ->
              (IF ct \in {"BasalProximal", "BasalDistal"} THEN "push" ELSE "Err")
         [] pt = "BasalDistal" -> (IF ct = "BasalDistal" THEN "push" ELSE "Err")
         [] pt = "ApicalTrunk" ->
              (IF ct \in {"ApicalTrunk", "ApicalTuft"} THEN "push" ELSE "Err")
         [] pt = "ApicalTuft" -> (IF ct = "ApicalTuft" THEN "push" ELSE "Err")
         [] pt = "Axon" -> (IF ct = "Axon" THEN "push" ELSE "Err")

AddChildOutcome(p, c) ==
    LET pt == ntype[p]
        ct == ntype[c]
    IN CASE pt = "Soma" ->
              (CASE ct = "Soma" -> "Err"
                 [] ct = "BasalProximal" -> "push"
                 [] ct = "BasalDistal" -> "Err"
                 [] ct = "ApicalTrunk" -> IF HasChildOfType(p, "ApicalTrunk") THEN "Err" ELSE "push"
                 [] ct = "ApicalTuft" -> "Err"
                 [] ct = "Axon" -> IF HasChildOfType(p, "Axon") THEN "Err" ELSE "push")
         [] pt = "BasalProximal" ->
              (CASE ct = "Soma" -> "Err"
                 [] ct = "BasalProximal" -> "push"
                 [] ct = "BasalDistal" -> "push"
                 [] ct = "ApicalTrunk" -> "Err"
                 [] ct = "ApicalTuft" -> "Err"
                 [] ct = "Axon" -> "Err")
         [] pt = "BasalDistal" ->
              (CASE ct = "Soma" -> "Err"
                 [] ct = "BasalProximal" -> "Err"
                 [] ct = "BasalDistal" -> "push"
                 [] ct = "ApicalTrunk" -> "Err"
                 [] ct = "ApicalTuft" -> "Err"
                 [] ct = "Axon" -> "Err")
         [] pt = "ApicalTrunk" ->
              (CASE ct = "Soma" -> "Err"
                 [] ct = "BasalProximal" -> "Err"
                 [] ct = "BasalDistal" -> "Err"
                 [] ct = "ApicalTrunk" -> "push"
                 [] ct = "ApicalTuft" -> "push"
                 [] ct = "Axon" -> "Err")
         [] pt = "ApicalTuft" ->
              (CASE ct = "Soma" -> "Err"
                 [] ct = "BasalProximal" -> "Err"
                 [] ct = "BasalDistal" -> "Err"
                 [] ct = "ApicalTrunk" -> "Err"
                 [] ct = "ApicalTuft" -> "push"
                 [] ct = "Axon" -> "Err")
         [] pt = "Axon" ->
              (CASE ct = "Soma" -> "Err"
                 [] ct = "BasalProximal" -> "Err"
                 [] ct = "BasalDistal" -> "Err"
                 [] ct = "ApicalTrunk" -> "Err"
                 [] ct = "ApicalTuft" -> "Err"
                 [] ct = "Axon" -> "push")

\* p.borrow_mut().add_child(Rc::clone(&c)).  Every arm starts by evaluating
\* child.borrow(): when the child is the receiver itself its RefCell is
\* already mutably borrowed and borrow() panics (BorrowError).  The child's
\* parent field is not assigned.
AddChild(p, c) ==
    /\ ~Panicked
    /\ IF p = c
       THEN /\ last' = Call("add_child", p, c, "panic")
            /\ UNCHANGED <<child, parent>>
       ELSE IF AddChildOutcome(p, c) = "push"
       THEN /\ TotalEdges < MaxEdges
            /\ child' = [child EXCEPT ![p] = Append(@, c)]
            /\ last' = Call("add_child", p, c, "Ok")
            /\ UNCHANGED parent
       ELSE /\ last' = Call("add_child", p, c, "Err")
            /\ UNCHANGED <<child, parent>>
    /\ UNCHANGED <<ntype, dynVars, elVars, stpVars, synVars, pairVars>>

----------------------------------------------------------------------------
(* Neurite::set_parent                                                      *)

\* The guard of each arm: "t != A || t != B" with A and B the two parent
\* types the arm's message names.
SetParentRejects(ct, pt) ==
    CASE ct = "BasalProximal" -> (pt # "Soma" \/ pt # "BasalProximal")
      [] ct = "BasalDistal" -> (pt # "BasalDistal" \/ pt # "BasalProximal")
      [] ct = "ApicalTrunk" -> (pt # "Soma" \/ pt # "ApicalTrunk")
      [] ct = "ApicalTuft" -> (pt # "ApicalTrunk" \/ pt # "ApicalTuft")
      [] ct = "Axon" -> (pt # "Soma" \/ pt # "Axon")

\* c.borrow_mut().set_parent(Rc::clone(&p)).  The Soma arm returns before
\* touching the argument; every other arm evaluates parent.borrow(), which
\* panics when the argument is the receiver itself.
SetParent(c, p) ==
    /\ ~Panicked
    /\ IF ntype[c] = "Soma"
       THEN /\ last' = Call("set_parent", c, p, "Err")
            /\ UNCHANGED parent
       ELSE IF c = p
       THEN /\ last' = Call("set_parent", c, p, "panic")
            /\ UNCHANGED parent
       ELSE IF SetParentRejects(ntype[c], ntype[p])
       THEN /\ last' = Call("set_parent", c, p, "Err")
            /\ UNCHANGED parent
       ELSE /\ parent' = [parent EXCEPT ![c] = p]
            /\ last' = Call("set_parent", c, p, "Ok")
    /\ UNCHANGED <<ntype, child, dynVars, elVars, stpVars, synVars, pairVars>>

----------------------------------------------------------------------------
(* Neurite::remove_child and Neurite::prune_child                           *)

\* "if index >= self.child.len() { return false; }", index a usize.
IndexOutOfBoundsOffByOne(index, len) == index > len

IndexOutOfBounds(index, len) == index >= len

\* Vec::remove(index) on a 0-based index.
VecRemove(s, index) == SubSeq(s, 1, index) \o SubSeq(s, index + 2, Len(s))

\* n.borrow_mut().remove_child(index).  Indexing self.child past its end
\* panics.  With at least one child under the removed neurite r the loop
\* body runs: its first statement evaluates r's "parent.unwrap()", a panic
\* when r has no parent, and otherwise takes r.borrow_mut() while the
\* borrow() of the loop header and of the right-hand side are still alive,
\* a panic too (BorrowMutError).  Nothing has been written at that point.
RemoveChild(n, index) ==
    /\ ~Panicked
    /\ IF IndexOutOfBounds(index, Len(child[n]))
       THEN /\ last' = Call("remove_child", n, index, "false")
            /\ UNCHANGED <<child, parent>>
       ELSE IF index >= Len(child[n])
       THEN /\ last' = Call("remove_child", n, index, "panic")
            /\ UNCHANGED <<child, parent>>
       ELSE LET r == child[n][index + 1]
            IN IF Len(child[r]) > 0
               THEN /\ last' = Call("remove_child", n, index, "panic")
                    /\ UNCHANGED <<child, parent>>
               ELSE /\ child' = [child EXCEPT ![n] = VecRemove(@, index)]
                    /\ last' = Call("remove_child", n, index, "true")
                    /\ UNCHANGED parent
    /\ UNCHANGED <<ntype, dynVars, elVars, stpVars, synVars, pairVars>>

\* n.borrow_mut().prune_child(index).
PruneChild(n, index) ==
    /\ ~Panicked
    /\ IF IndexOutOfBounds(index, Len(child[n]))
       THEN /\ last' = Call("prune_child", n, index, "false")
            /\ UNCHANGED <<child, parent>>
       ELSE IF index >= Len(child[n])
       THEN /\ last' = Call("prune_child", n, index, "panic")
            /\ UNCHANGED <<child, parent>>
       ELSE /\ child' = [child EXCEPT ![n] = VecRemove(@, index)]
            /\ last' = Call("prune_child", n, index, "true")
            /\ UNCHANGED parent
    /\ UNCHANGED <<ntype, dynVars, elVars, stpVars, synVars, pairVars>>

----------------------------------------------------------------------------

(* SpikeModel and the three preset matches of Neurite.  Values are in       *)
(* thousandths; ext is <<>> for None and <<e>> for Some(e).                 *)

SpikeModel ==
    { "Accommodation",
      "Bistability",
      "ChatteringI",
      "ChatteringII",
      "ClassI",
      "ClassII",
      "DepolarizingAfterPotential",
      "EntorhinalStellate",
      "FastSpiking",
      "FastSpikingBasket",
      "HippocampalCA1PyramidalHighThresholdBursting",
      "HippocampalCA1PyramidalLowThresholdBurstingI",
      "HippocampalCA1PyramidalLowThresholdBurstingII",
      "HippocampalCA1PyramidalNonBursting",
      "InhibitionInducedBursting",
      "InhibitionInducedSpiking",
      "Integrator",
      "IntrinsicallyBurstingPyramidal",
      "IntrinsicallyBurstingPyramidalDendriteI",
      "IntrinsicallyBurstingPyramidalDendriteII",
      "IntrinsicallyBurstingPyramidalSomaI",
      "IntrinsicallyBurstingPyramidalSomaII",
      "LatentSpikingNonBasket",
      "LatentSpikingNonBasketDendrite",
      "LowThresholdSpiking",
      "LowThresholdSpikingNonBasket",
      "MixedMode",
      "PhasicBursting",
      "PhasicSpiking",
      "ReboundBurst",
      "ReboundSpike",
      "RegularSpiking",
      "RegularSpikingPyramidalI",
      "RegularSpikingPyramidalII",
      "RegularSpikingPyramidalL2L3Dendrite",
      "RegularSpikingPyramidalL4Dendrite",
      "RegularSpikingPyramidalL5L6Dendrite",
      "RegularSpikingSpinyStellate",
      "RegularSpikingSpinyStellateDendrite",
      "ResonatorI",
      "ResonatorII",
      "ReticularThalamicNeuron",
      "SpikeFrequencyAdaptation",
      "SpikeLatency",
      "SpinyProjection",
      "SubthresholdOscillation",
      "ThalamicInterneuron",
      "Thalamocortical",
      "ThalamocorticalBursting",
      "ThalamocorticalSpiking",
      "ThresholdVariability",
      "TonicBursting",
      "TonicSpiking" }

\* The arms of the match of Neurite::new: the literals each arm stores.
NewArm(m) ==
    CASE m = "Accommodation" ->
             [a |-> 20, b |-> 1000, c |-> -55000, d |-> 4000, u |-> -16000, v |-> -65000, y |-> 0, ext |-> <<>>]
      [] m = "Bistability" ->
             [a |-> 100, b |-> 260, c |-> -60000, d |-> 0, u |-> -15860, v |-> -61000, y |-> 0, ext |-> <<>>]
      [] m \in {"ChatteringI", "TonicBursting"} ->
             [a |-> 20, b |-> 200, c |-> -50000, d |-> 2000, u |-> -14000, v |-> -70000, y |-> 0, ext |-> <<>>]
      [] m = "ChatteringII" ->
             [a |-> 30, b |-> 1000, c |-> -40000, d |-> 150000, u |-> 0, v |-> -60000, y |-> 0, ext |-> <<[k |-> 1500, gcc |-> 0, gpc |-> 0, vr |-> -60000, vt |-> -40000, vp |-> 25000, cap |-> 50000]>>]
      [] m \in {"ClassI", "Integrator"} ->
             [a |-> 20, b |-> -100, c |-> -55000, d |-> 6000, u |-> 6000, v |-> -60000, y |-> 0, ext |-> <<>>]
      [] m = "ClassII" ->
             [a |-> 200, b |-> 260, c |-> -65000, d |-> 0, u |-> -16640, v |-> -64000, y |-> 0, ext |-> <<>>]
      [] m = "DepolarizingAfterPotential" ->
             [a |-> 1000, b |-> 200, c |-> -60000, d |-> -21000, u |-> -14000, v |-> -70000, y |-> 0, ext |-> <<>>]
      [] m = "EntorhinalStellate" ->
             [a |-> 10, b |-> 15000, c |-> -50000, d |-> 0, u |-> 0, v |-> -60000, y |-> 0, ext |-> <<[k |-> 750, gcc |-> 1000, gpc |-> 1000, vr |-> -60000, vt |-> -45000, vp |-> 30000, cap |-> 200000]>>]
      [] m = "FastSpiking" ->
             [a |-> 100, b |-> 200, c |-> -65000, d |-> 2000, u |-> -14000, v |-> -70000, y |-> 0, ext |-> <<>>]
      [] m = "FastSpikingBasket" ->
             [a |-> 200, b |-> 0, c |-> -55000, d |-> 0, u |-> 0, v |-> -55000, y |-> 0, ext |-> <<[k |-> 1000, gcc |-> 500, gpc |-> 1000, vr |-> -55000, vt |-> -40000, vp |-> 25000, cap |-> 20000]>>]
      [] m = "HippocampalCA1PyramidalHighThresholdBursting" ->
             [a |-> 20, b |-> 500, c |-> -45000, d |-> 50000, u |-> 0, v |-> -60000, y |-> 0, ext |-> <<[k |-> 1000, gcc |-> 1000, gpc |-> 1000, vr |-> -60000, vt |-> -45000, vp |-> 40000, cap |-> 50000]>>]
      [] m = "HippocampalCA1PyramidalLowThresholdBurstingI" ->
             [a |-> 20, b |-> 500, c |-> -40000, d |-> 55000, u |-> 0, v |-> -60000, y |-> 0, ext |-> <<[k |-> 1000, gcc |-> 1000, gpc |-> 1000, vr |-> -60000, vt |-> -45000, vp |-> 40000, cap |-> 50000]>>]
      [] m = "HippocampalCA1PyramidalLowThresholdBurstingII" ->
             [a |-> 20, b |-> 500, c |-> -35000, d |-> 60000, u |-> 0, v |-> -60000, y |-> 0, ext |-> <<[k |-> 1000, gcc |-> 1000, gpc |-> 1000, vr |-> -60000, vt |-> -45000, vp |-> 40000, cap |-> 50000]>>]
      [] m = "HippocampalCA1PyramidalNonBursting" ->
             [a |-> 20, b |-> 500, c |-> -50000, d |-> 50000, u |-> 0, v |-> -60000, y |-> 0, ext |-> <<[k |-> 1000, gcc |-> 1000, gpc |-> 1000, vr |-> -60000, vt |-> -45000, vp |-> 40000, cap |-> 50000]>>]
      [] m = "InhibitionInducedBursting" ->
             [a |-> 26, b |-> -1000, c |-> -45000, d |-> -2000, u |-> 63800, v |-> -63800, y |-> 0, ext |-> <<>>]
      [] m = "InhibitionInducedSpiking" ->
             [a |-> 20, b |-> -1000, c |-> -60000, d |-> 8000, u |-> 63800, v |-> -63800, y |-> 0, ext |-> <<>>]
      [] m = "IntrinsicallyBurstingPyramidal" ->
             [a |-> 10, b |-> 5000, c |-> -56000, d |-> 130000, u |-> 0, v |-> -75000, y |-> 0, ext |-> <<[k |-> 1200, gcc |-> 1000, gpc |-> 1000, vr |-> -75000, vt |-> -45000, vp |-> 50000, cap |-> 150000]>>]
      [] m = "IntrinsicallyBurstingPyramidalDendriteI" ->
             [a |-> 3000, b |-> 15000, c |-> -20000, d |-> 500000, u |-> 0, v |-> -50000, y |-> 0, ext |-> <<[k |-> 1000, gcc |-> 1000, gpc |-> 1000, vr |-> -50000, vt |-> -50000, vp |-> 20000, cap |-> 30000]>>]
      [] m = "IntrinsicallyBurstingPyramidalDendriteII" ->
             [a |-> 10, b |-> 5000, c |-> -35000, d |-> 1000000, u |-> 0, v |-> -60000, y |-> 0, ext |-> <<[k |-> 3000, gcc |-> 7, gpc |-> 7, vr |-> -60000, vt |-> -50000, vp |-> 10000, cap |-> 100000]>>]
      [] m = "IntrinsicallyBurstingPyramidalSomaI" ->
             [a |-> 10, b |-> 5000, c |-> -52000, d |-> 240000, u |-> 0, v |-> -70000, y |-> 0, ext |-> <<[k |-> 3000, gcc |-> 1000, gpc |-> 1000, vr |-> -70000, vt |-> -45000, vp |-> 50000, cap |-> 150000]>>]
      [] m = "IntrinsicallyBurstingPyramidalSomaII" ->
             [a |-> 10, b |-> 5000, c |-> -55000, d |-> 500000, u |-> 0, v |-> -60000, y |-> 0, ext |-> <<[k |-> 3000, gcc |-> 7, gpc |-> 7, vr |-> -60000, vt |-> -50000, vp |-> 50000, cap |-> 100000]>>]
      [] m = "LatentSpikingNonBasket" ->
             [a |-> 170, b |-> 5000, c |-> -45000, d |-> 20000, u |-> 0, v |-> -53000, y |-> 0, ext |-> <<[k |-> 300, gcc |-> 600, gpc |-> 2500, vr |-> -66000, vt |-> -40000, vp |-> 30000, cap |-> 20000]>>]
      [] m = "LatentSpikingNonBasketDendrite" ->
             [a |-> 170, b |-> 5000, c |-> -45000, d |-> 20000, u |-> 0, v |-> -53000, y |-> 0, ext |-> <<[k |-> 300, gcc |-> 600, gpc |-> 2500, vr |-> -66000, vt |-> -40000, vp |-> 100000, cap |-> 20000]>>]
      [] m = "LowThresholdSpiking" ->
             [a |-> 20, b |-> 250, c |-> -65000, d |-> 2000, u |-> -15750, v |-> -63000, y |-> 0, ext |-> <<>>]
      [] m = "LowThresholdSpikingNonBasket" ->
             [a |-> 30, b |-> 8000, c |-> -53000, d |-> 20000, u |-> 0, v |-> -53000, y |-> 0, ext |-> <<[k |-> 3000, gcc |-> 1000, gpc |-> 1000, vr |-> -56000, vt |-> -42000, vp |-> 40000, cap |-> 100000]>>]
      [] m = "MixedMode" ->
             [a |-> 20, b |-> 200, c |-> -55000, d |-> 4000, u |-> -14000, v |-> -70000, y |-> 0, ext |-> <<>>]
      [] m = "PhasicBursting" ->
             [a |-> 20, b |-> 250, c |-> -55000, d |-> 50, u |-> -16000, v |-> -64000, y |-> 0, ext |-> <<>>]
      [] m = "PhasicSpiking" ->
             [a |-> 20, b |-> 250, c |-> -65000, d |-> 6000, u |-> -16000, v |-> -64000, y |-> 0, ext |-> <<>>]
      [] m = "ReboundBurst" ->
             [a |-> 30, b |-> 250, c |-> -52000, d |-> 0, u |-> -16000, v |-> -64000, y |-> 0, ext |-> <<>>]
      [] m \in {"ReboundSpike", "ThresholdVariability"} ->
             [a |-> 30, b |-> 250, c |-> -60000, d |-> 4000, u |-> -16000, v |-> -64000, y |-> 0, ext |-> <<>>]
      [] m = "RegularSpiking" ->
             [a |-> 20, b |-> 200, c |-> -65000, d |-> 8000, u |-> -12600, v |-> -63000, y |-> 0, ext |-> <<>>]
      [] m = "RegularSpikingPyramidalI" ->
             [a |-> 30, b |-> -2000, c |-> -50000, d |-> 100000, u |-> 0, v |-> -60000, y |-> 0, ext |-> <<[k |-> 700, gcc |-> 1000, gpc |-> 1000, vr |-> -60000, vt |-> -40000, vp |-> 35000, cap |-> 100000]>>]
      [] m \in {"RegularSpikingPyramidalII", "RegularSpikingSpinyStellate"} ->
             [a |-> 10, b |-> 5000, c |-> -60000, d |-> 400000, u |-> 0, v |-> -60000, y |-> 0, ext |-> <<[k |-> 3000, gcc |-> 3000, gpc |-> 5000, vr |-> -60000, vt |-> -50000, vp |-> 50000, cap |-> 100000]>>]
      [] m = "RegularSpikingPyramidalL2L3Dendrite" ->
             [a |-> 10, b |-> 5000, c |-> -55000, d |-> 400000, u |-> 0, v |-> -60000, y |-> 0, ext |-> <<[k |-> 3000, gcc |-> 3000, gpc |-> 5000, vr |-> -60000, vt |-> -50000, vp |-> 30000, cap |-> 100000]>>]
      [] m = "RegularSpikingPyramidalL4Dendrite" ->
             [a |-> 10, b |-> 5000, c |-> -50000, d |-> 400000, u |-> 0, v |-> -60000, y |-> 0, ext |-> <<[k |-> 3000, gcc |-> 3000, gpc |-> 5000, vr |-> -60000, vt |-> -50000, vp |-> 50000, cap |-> 100000]>>]
      [] m \in {"RegularSpikingPyramidalL5L6Dendrite", "RegularSpikingSpinyStellateDendrite"} ->
             [a |-> 10, b |-> 5000, c |-> -50000, d |-> 400000, u |-> 0, v |-> -60000, y |-> 0, ext |-> <<[k |-> 3000, gcc |-> 3000, gpc |-> 5000, vr |-> -60000, vt |-> -50000, vp |-> 30000, cap |-> 100000]>>]
      [] m = "ResonatorI" ->
             [a |-> 100, b |-> 260, c |-> -65000, d |-> 2000, u |-> -18200, v |-> -70000, y |-> 0, ext |-> <<>>]
      [] m = "ResonatorII" ->
             [a |-> 100, b |-> 260, c |-> -60000, d |-> -1000, u |-> -16120, v |-> -62000, y |-> 0, ext |-> <<>>]
      [] m = "ReticularThalamicNeuron" ->
             [a |-> 15, b |-> 10000, c |-> -55000, d |-> 50000, u |-> 0, v |-> 0, y |-> 0, ext |-> <<[k |-> 250, gcc |-> 5000, gpc |-> 5000, vr |-> -65000, vt |-> -45000, vp |-> 0, cap |-> 40000]>>]
      [] m = "SpikeFrequencyAdaptation" ->
             [a |-> 10, b |-> 200, c |-> -65000, d |-> 8000, u |-> -14000, v |-> -70000, y |-> 0, ext |-> <<>>]
      [] m \in {"SpikeLatency", "TonicSpiking"} ->
             [a |-> 20, b |-> 200, c |-> -65000, d |-> 6000, u |-> -14000, v |-> -70000, y |-> 0, ext |-> <<>>]
      [] m = "SpinyProjection" ->
             [a |-> 10, b |-> -20000, c |-> -55000, d |-> 150000, u |-> 0, v |-> -80000, y |-> 0, ext |-> <<[k |-> 1000, gcc |-> 1000, gpc |-> 1000, vr |-> -80000, vt |-> -25000, vp |-> 40000, cap |-> 50000]>>]
      [] m = "SubthresholdOscillation" ->
             [a |-> 50, b |-> 260, c |-> -60000, d |-> 0, u |-> -16120, v |-> -62000, y |-> 0, ext |-> <<>>]
      [] m = "ThalamicInterneuron" ->
             [a |-> 50, b |-> 7000, c |-> -65000, d |-> 50000, u |-> 0, v |-> -60000, y |-> 0, ext |-> <<[k |-> 500, gcc |-> 5000, gpc |-> 5000, vr |-> -60000, vt |-> -50000, vp |-> 20000, cap |-> 20000]>>]
      [] m = "Thalamocortical" ->
             [a |-> 100, b |-> 15000, c |-> -60000, d |-> 10000, u |-> 0, v |-> -60000, y |-> 0, ext |-> <<[k |-> 1600, gcc |-> 2000, gpc |-> 2000, vr |-> -60000, vt |-> -50000, vp |-> 40000, cap |-> 200000]>>]
      [] m = "ThalamocorticalSpiking" ->
             [a |-> 20, b |-> 250, c |-> -65000, d |-> 50, u |-> -15750, v |-> -63000, y |-> 0, ext |-> <<>>]
      [] m = "ThalamocorticalBursting" ->
             [a |-> 20, b |-> 250, c |-> -65000, d |-> 50, u |-> -21750, v |-> -87000, y |-> 0, ext |-> <<>>]

\* The arms of the match of Neurite::set_spike_model.
SetSpikeModelArm(m) ==
    CASE m = "Accommodation" ->
             [a |-> 20, b |-> 1000, c |-> -55000, d |-> 4000, u |-> -16000, v |-> -65000, y |-> 0, ext |-> <<>>]
      [] m = "Bistability" ->
             [a |-> 100, b |-> 260, c |-> -60000, d |-> 0, u |-> -15860, v |-> -61000, y |-> 0, ext |-> <<>>]
      [] m = "ChatteringI" ->
             [a |-> 20, b |-> 200, c |-> -50000, d |-> 2000, u |-> -14000, v |-> -70000, y |-> 0, ext |-> <<>>]
      [] m = "ChatteringII" ->
             [a |-> 30, b |-> 1000, c |-> -40000, d |-> 150000, u |-> 0, v |-> -60000, y |-> 0, ext |-> <<[k |-> 1500, gcc |-> 0, gpc |-> 0, vr |-> -60000, vt |-> -40000, vp |-> 25000, cap |-> 50000]>>]
      [] m = "ClassI" ->
             [a |-> 20, b |-> 100, c |-> -55000, d |-> 6000, u |-> 6000, v |-> -60000, y |-> 0, ext |-> <<>>]
      [] m = "ClassII" ->
             [a |-> 200, b |-> 260, c |-> -65000, d |-> 0, u |-> -16640, v |-> -64000, y |-> 0, ext |-> <<>>]
      [] m = "DepolarizingAfterPotential" ->
             [a |-> 1000, b |-> 200, c |-> -60000, d |-> -21000, u |-> -14000, v |-> -70000, y |-> 0, ext |-> <<>>]
      [] m = "EntorhinalStellate" ->
             [a |-> 10, b |-> 15000, c |-> -50000, d |-> 0, u |-> 0, v |-> -60000, y |-> 0, ext |-> <<[k |-> 750, gcc |-> 1000, gpc |-> 1000, vr |-> -60000, vt |-> -45000, vp |-> 30000, cap |-> 200000]>>]
      [] m = "FastSpiking" ->
             [a |-> 100, b |-> 200, c |-> -65000, d |-> 2000, u |-> -14000, v |-> -70000, y |-> 0, ext |-> <<>>]
      [] m = "FastSpikingBasket" ->
             [a |-> 200, b |-> 0, c |-> -55000, d |-> 0, u |-> 0, v |-> -55000, y |-> 0, ext |-> <<[k |-> 1000, gcc |-> 500, gpc |-> 1000, vr |-> -55000, vt |-> -40000, vp |-> 25000, cap |-> 20000]>>]
      [] m = "HippocampalCA1PyramidalHighThresholdBursting" ->
             [a |-> 20, b |-> 500, c |-> -45000, d |-> 50000, u |-> 0, v |-> -60000, y |-> 0, ext |-> <<[k |-> 1000, gcc |-> 1000, gpc |-> 1000, vr |-> -60000, vt |-> -45000, vp |-> 40000, cap |-> 50000]>>]
      [] m = "HippocampalCA1PyramidalLowThresholdBurstingI" ->
             [a |-> 20, b |-> 500, c |-> -40000, d |-> 55000, u |-> 0, v |-> -60000, y |-> 0, ext |-> <<[k |-> 1000, gcc |-> 1000, gpc |-> 1000, vr |-> -60000, vt |-> -45000, vp |-> 40000, cap |-> 50000]>>]
      [] m = "HippocampalCA1PyramidalLowThresholdBurstingII" ->
             [a |-> 20, b |-> 500, c |-> -35000, d |-> 60000, u |-> 0, v |-> -60000, y |-> 0, ext |-> <<[k |-> 1000, gcc |-> 1000, gpc |-> 1000, vr |-> -60000, vt |-> -45000, vp |-> 40000, cap |-> 50000]>>]
      [] m = "HippocampalCA1PyramidalNonBursting" ->
             [a |-> 20, b |-> 500, c |-> -50000, d |-> 50000, u |-> 0, v |-> -60000, y |-> 0, ext |-> <<[k |-> 1000, gcc |-> 1000, gpc |-> 1000, vr |-> -60000, vt |-> -45000, vp |-> 40000, cap |-> 50000]>>]
      [] m = "InhibitionInducedBursting" ->
             [a |-> 26, b |-> -1000, c |-> -45000, d |-> -2000, u |-> 63800, v |-> -63800, y |-> 0, ext |-> <<>>]
      [] m = "InhibitionInducedSpiking" ->
             [a |-> 20, b |-> -1000, c |-> -60000, d |-> 8000, u |-> 63800, v |-> -63800, y |-> 0, ext |-> <<>>]
      [] m = "Integrator" ->
             [a |-> 20, b |-> -100, c |-> -55000, d |-> 6000, u |-> 6000, v |-> -60000, y |-> 0, ext |-> <<>>]
      [] m = "IntrinsicallyBurstingPyramidal" ->
             [a |-> 10, b |-> 5000, c |-> -56000, d |-> 130000, u |-> 0, v |-> -75000, y |-> 0, ext |-> <<[k |-> 1200, gcc |-> 1000, gpc |-> 1000, vr |-> -75000, vt |-> -45000, vp |-> 50000, cap |-> 150000]>>]
      [] m = "IntrinsicallyBurstingPyramidalDendriteI" ->
             [a |-> 3000, b |-> 15000, c |-> -20000, d |-> 500000, u |-> 0, v |-> -50000, y |-> 0, ext |-> <<[k |-> 1000, gcc |-> 1000, gpc |-> 1000, vr |-> -50000, vt |-> -50000, vp |-> 20000, cap |-> 30000]>>]
      [] m = "IntrinsicallyBurstingPyramidalDendriteII" ->
             [a |-> 10, b |-> 5000, c |-> -35000, d |-> 1000000, u |-> 0, v |-> -60000, y |-> 0, ext |-> <<[k |-> 3000, gcc |-> 700, gpc |-> 700, vr |-> -60000, vt |-> -50000, vp |-> 10000, cap |-> 100000]>>]
      [] m = "IntrinsicallyBurstingPyramidalSomaI" ->
             [a |-> 10, b |-> 5000, c |-> -52000, d |-> 240000, u |-> 0, v |-> -70000, y |-> 0, ext |-> <<[k |-> 3000, gcc |-> 1000, gpc |-> 1000, vr |-> -70000, vt |-> -45000, vp |-> 50000, cap |-> 150000]>>]
      [] m = "IntrinsicallyBurstingPyramidalSomaII" ->
             [a |-> 10, b |-> 5000, c |-> -55000, d |-> 500000, u |-> 0, v |-> -60000, y |-> 0, ext |-> <<[k |-> 3000, gcc |-> 700, gpc |-> 700, vr |-> -60000, vt |-> -50000, vp |-> 50000, cap |-> 100000]>>]
      [] m = "LatentSpikingNonBasket" ->
             [a |-> 170, b |-> 5000, c |-> -45000, d |-> 20000, u |-> 0, v |-> -53000, y |-> 0, ext |-> <<[k |-> 300, gcc |-> 600, gpc |-> 2500, vr |-> -66000, vt |-> -40000, vp |-> 30000, cap |-> 20000]>>]
      [] m = "LatentSpikingNonBasketDendrite" ->
             [a |-> 170, b |-> 5000, c |-> -45000, d |-> 20000, u |-> 0, v |-> -53000, y |-> 0, ext |-> <<[k |-> 300, gcc |-> 600, gpc |-> 2500, vr |-> -66000, vt |-> -40000, vp |-> 100000, cap |-> 20000]>>]
      [] m = "LowThresholdSpiking" ->
             [a |-> 20, b |-> 250, c |-> -65000, d |-> 2000, u |-> -15750, v |-> -63000, y |-> 0, ext |-> <<>>]
      [] m = "LowThresholdSpikingNonBasket" ->
             [a |-> 30, b |-> 8000, c |-> -53000, d |-> 20000, u |-> 0, v |-> -53000, y |-> 0, ext |-> <<[k |-> 3000, gcc |-> 1000, gpc |-> 1000, vr |-> -56000, vt |-> -42000, vp |-> 40000, cap |-> 100000]>>]
      [] m = "MixedMode" ->
             [a |-> 20, b |-> 200, c |-> -55000, d |-> 4000, u |-> -14000, v |-> -70000, y |-> 0, ext |-> <<>>]
      [] m = "PhasicBursting" ->
             [a |-> 20, b |-> 250, c |-> -55000, d |-> 50, u |-> -16000, v |-> -64000, y |-> 0, ext |-> <<>>]
      [] m = "PhasicSpiking" ->
             [a |-> 20, b |-> 250, c |-> -65000, d |-> 6000, u |-> -16000, v |-> -64000, y |-> 0, ext |-> <<>>]
      [] m = "ReboundBurst" ->
             [a |-> 30, b |-> 250, c |-> -52000, d |-> 0, u |-> -16000, v |-> -64000, y |-> 0, ext |-> <<>>]
      [] m = "ReboundSpike" ->
             [a |-> 30, b |-> 250, c |-> -60000, d |-> 4000, u |-> -16000, v |-> -64000, y |-> 0, ext |-> <<>>]
      [] m = "RegularSpiking" ->
             [a |-> 20, b |-> 200, c |-> -65000, d |-> 8000, u |-> -12600, v |-> -63000, y |-> 0, ext |-> <<>>]
      [] m = "RegularSpikingPyramidalI" ->
             [a |-> 30, b |-> -2000, c |-> -50000, d |-> 100000, u |-> 0, v |-> -60000, y |-> 0, ext |-> <<[k |-> 700, gcc |-> 1000, gpc |-> 1000, vr |-> -60000, vt |-> -40000, vp |-> 35000, cap |-> 100000]>>]
      [] m \in {"RegularSpikingPyramidalII", "RegularSpikingSpinyStellate"} ->
             [a |-> 10, b |-> 5000, c |-> -60000, d |-> 400000, u |-> 0, v |-> -60000, y |-> 0, ext |-> <<[k |-> 3000, gcc |-> 3000, gpc |-> 5000, vr |-> -60000, vt |-> -50000, vp |-> 50000, cap |-> 100000]>>]
      [] m = "RegularSpikingPyramidalL2L3Dendrite" ->
             [a |-> 10, b |-> 5000, c |-> -55000, d |-> 400000, u |-> 0, v |-> -60000, y |-> 0, ext |-> <<[k |-> 3000, gcc |-> 3000, gpc |-> 5000, vr |-> -60000, vt |-> -50000, vp |-> 30000, cap |-> 100000]>>]
      [] m = "RegularSpikingPyramidalL4Dendrite" ->
             [a |-> 10, b |-> 5000, c |-> -50000, d |-> 400000, u |-> 0, v |-> -60000, y |-> 0, ext |-> <<[k |-> 3000, gcc |-> 3000, gpc |-> 5000, vr |-> -60000, vt |-> -50000, vp |-> 50000, cap |-> 100000]>>]
      [] m \in {"RegularSpikingPyramidalL5L6Dendrite", "RegularSpikingSpinyStellateDendrite"} ->
             [a |-> 10, b |-> 5000, c |-> -50000, d |-> 400000, u |-> 0, v |-> -60000, y |-> 0, ext |-> <<[k |-> 3000, gcc |-> 3000, gpc |-> 5000, vr |-> -60000, vt |-> -50000, vp |-> 30000, cap |-> 100000]>>]
      [] m = "ResonatorI" ->
             [a |-> 100, b |-> 260, c |-> -65000, d |-> 2000, u |-> -18200, v |-> -70000, y |-> 0, ext |-> <<>>]
      [] m = "ResonatorII" ->
             [a |-> 100, b |-> 260, c |-> -60000, d |-> -1000, u |-> -16120, v |-> -62000, y |-> 0, ext |-> <<>>]
      [] m = "ReticularThalamicNeuron" ->
             [a |-> 15, b |-> 10000, c |-> -55000, d |-> 50000, u |-> 0, v |-> 0, y |-> 0, ext |-> <<[k |-> 250, gcc |-> 5000, gpc |-> 5000, vr |-> -65000, vt |-> -45000, vp |-> 0, cap |-> 40000]>>]
      [] m = "SpikeFrequencyAdaptation" ->
             [a |-> 10, b |-> 200, c |-> -65000, d |-> 8000, u |-> -14000, v |-> -70000, y |-> 0, ext |-> <<>>]
      [] m = "SpikeLatency" ->
             [a |-> 20, b |-> 200, c |-> -65000, d |-> 6000, u |-> -14000, v |-> -70000, y |-> 0, ext |-> <<>>]
      [] m = "SpinyProjection" ->
             [a |-> 10, b |-> -20000, c |-> -55000, d |-> 150000, u |-> 0, v |-> -80000, y |-> 0, ext |-> <<[k |-> 1000, gcc |-> 1000, gpc |-> 1000, vr |-> -80000, vt |-> -25000, vp |-> 40000, cap |-> 50000]>>]
      [] m = "SubthresholdOscillation" ->
             [a |-> 50, b |-> 260, c |-> -60000, d |-> 0, u |-> -16120, v |-> -62000, y |-> 0, ext |-> <<>>]
      [] m = "ThalamicInterneuron" ->
             [a |-> 50, b |-> 7000, c |-> -65000, d |-> 50000, u |-> 0, v |-> -60000, y |-> 0, ext |-> <<[k |-> 500, gcc |-> 5000, gpc |-> 5000, vr |-> -60000, vt |-> -50000, vp |-> 20000, cap |-> 20000]>>]
      [] m = "Thalamocortical" ->
             [a |-> 100, b |-> 15000, c |-> -60000, d |-> 10000, u |-> 0, v |-> -60000, y |-> 0, ext |-> <<[k |-> 1600, gcc |-> 2000, gpc |-> 2000, vr |-> -60000, vt |-> -50000, vp |-> 40000, cap |-> 200000]>>]
      [] m = "ThalamocorticalBursting" ->
             [a |-> 20, b |-> 250, c |-> -65000, d |-> 50, u |-> -21750, v |-> -87000, y |-> 0, ext |-> <<>>]
      [] m = "ThalamocorticalSpiking" ->
             [a |-> 20, b |-> 250, c |-> -65000, d |-> 50, u |-> -15750, v |-> -63000, y |-> 0, ext |-> <<>>]
      [] m = "ThresholdVariability" ->
             [a |-> 30, b |-> 250, c |-> -60000, d |-> 4000, u |-> -16000, v |-> -64000, y |-> 0, ext |-> <<>>]
      [] m = "TonicBursting" ->
             [a |-> 20, b |-> 200, c |-> -50000, d |-> 2000, u |-> -14000, v |-> -70000, y |-> 0, ext |-> <<>>]
      [] m = "TonicSpiking" ->
             [a |-> 20, b |-> 200, c |-> -65000, d |-> 6000, u |-> -14000, v |-> -70000, y |-> 0, ext |-> <<>>]

\* The arms of the match of Neurite::reset.
ResetArm(m) ==
    CASE m = "Accommodation" ->
             [u |-> -16000, v |-> -65000, y |-> 0]
      [] m = "Bistability" ->
             [u |-> -15860, v |-> -61000, y |-> 0]
      [] m \in {"ChatteringI", "DepolarizingAfterPotential", "FastSpiking", "MixedMode", "SpikeFrequencyAdaptation", "SpikeLatency", "TonicBursting", "TonicSpiking"} ->
             [u |-> -14000, v |-> -70000, y |-> 0]
      [] m \in {"ChatteringII", "EntorhinalStellate", "HippocampalCA1PyramidalHighThresholdBursting", "HippocampalCA1PyramidalLowThresholdBurstingI", "HippocampalCA1PyramidalLowThresholdBurstingII", "HippocampalCA1PyramidalNonBursting", "IntrinsicallyBurstingPyramidalDendriteII", "IntrinsicallyBurstingPyramidalSomaII", "RegularSpikingPyramidalI", "RegularSpikingPyramidalII", "RegularSpikingPyramidalL2L3Dendrite", "RegularSpikingPyramidalL4Dendrite", "RegularSpikingPyramidalL5L6Dendrite", "RegularSpikingSpinyStellate", "RegularSpikingSpinyStellateDendrite", "ThalamicInterneuron", "Thalamocortical"} ->
             [u |-> 0, v |-> -60000, y |-> 0]
      [] m \in {"ClassI", "Integrator"} ->
             [u |-> 6000, v |-> -60000, y |-> 0]
      [] m = "ClassII" ->
             [u |-> -16640, v |-> -64000, y |-> 0]
      [] m = "FastSpikingBasket" ->
             [u |-> 0, v |-> -55000, y |-> 0]
      [] m \in {"InhibitionInducedBursting", "InhibitionInducedSpiking"} ->
             [u |-> 63800, v |-> -63800, y |-> 0]
      [] m = "IntrinsicallyBurstingPyramidal" ->
             [u |-> 0, v |-> -75000, y |-> 0]
      [] m = "IntrinsicallyBurstingPyramidalDendriteI" ->
             [u |-> 0, v |-> -50000, y |-> 0]
      [] m = "IntrinsicallyBurstingPyramidalSomaI" ->
             [u |-> 0, v |-> -70000, y |-> 0]
      [] m \in {"LatentSpikingNonBasket", "LatentSpikingNonBasketDendrite", "LowThresholdSpikingNonBasket"} ->
             [u |-> 0, v |-> -53000, y |-> 0]
      [] m = "LowThresholdSpiking" ->
             [u |-> -15750, v |-> -63000, y |-> 0]
      [] m \in {"PhasicBursting", "PhasicSpiking", "ReboundBurst", "ReboundSpike", "ThresholdVariability"} ->
             [u |-> -16000, v |-> -64000, y |-> 0]
      [] m = "RegularSpiking" ->
             [u |-> -12600, v |-> -63000, y |-> 0]
      [] m = "ResonatorI" ->
             [u |-> -18200, v |-> -70000, y |-> 0]
      [] m \in {"ResonatorII", "SubthresholdOscillation"} ->
             [u |-> -16120, v |-> -62000, y |-> 0]
      [] m = "ReticularThalamicNeuron" ->
             [u |-> 0, v |-> 0, y |-> 0]
      [] m = "SpinyProjection" ->
             [u |-> 0, v |-> -80000, y |-> 0]
      [] m = "ThalamocorticalBursting" ->
             [u |-> -15750, v |-> -63000, y |-> 0]
      [] m = "ThalamocorticalSpiking" ->
             [u |-> -21750, v |-> -87000, y |-> 0]

----------------------------------------------------------------------------
(* Neurite::new, set_spike_model, reset                                     *)

\* Neurite::new(neurite_type, spike_model).
New(t, m) ==
    LET p == NewArm(m)
    IN [id |-> "id", neurite_type |-> t, spike_model |-> m,
        a |-> p.a, b |-> p.b, c |-> p.c, d |-> p.d, u |-> p.u, v |-> p.v,
        vcc |-> 0, vpc |-> 0, y |-> p.y, ext |-> p.ext,
        syn |-> <<>>, parent |-> None, child |-> <<>>]

\* set_spike_model written as "build a fresh neurite of the same type".
SetSpikeModelOfRecreates(nr, m) ==
    LET p == SetSpikeModelArm(m)
    IN [id |-> nr.id, neurite_type |-> nr.neurite_type, spike_model |-> m,
        a |-> p.a, b |-> p.b, c |-> p.c, d |-> p.d, u |-> p.u, v |-> p.v,
        vcc |-> nr.vcc, vpc |-> nr.vpc, y |-> p.y, ext |-> p.ext,
        syn |-> <<>>, parent |-> None, child |-> <<>>]

\* set_spike_model with the assignment of self.ext left out.
SetSpikeModelOfKeepsExt(nr, m) ==
    LET p == SetSpikeModelArm(m)
    IN [nr EXCEPT !.spike_model = m, !.a = p.a, !.b = p.b, !.c = p.c, !.d = p.d,
                  !.u = p.u, !.v = p.v, !.y = p.y]

\* The neurite after self.set_spike_model(m).
SetSpikeModelOf(nr, m) ==
    LET p == SetSpikeModelArm(m)
    IN [nr EXCEPT !.spike_model = m, !.a = p.a, !.b = p.b, !.c = p.c, !.d = p.d,
                  !.u = p.u, !.v = p.v, !.y = p.y, !.ext = p.ext]

\* reset written as "apply the preset of the current model again".
ResetOfReappliesPreset(nr) ==
    LET p == SetSpikeModelArm(nr.spike_model)
    IN [nr EXCEPT !.a = p.a, !.b = p.b, !.c = p.c, !.d = p.d,
                  !.u = p.u, !.v = p.v, !.y = p.y]

\* The neurite after self.reset().
ResetOf(nr) ==
    LET p == ResetArm(nr.spike_model)
    IN [nr EXCEPT !.u = p.u, !.v = p.v, !.y = p.y]

----------------------------------------------------------------------------
(* Neurite::process                                                         *)

Milli == 10 ^ 3

\* x * y and x / y on thousandths, rounded down; split so that no
\* intermediate product leaves the 32-bit range.
Mul(x, y) == (x \div Milli) * y + ((x % Milli) * y) \div Milli

Div(x, y) == (x \div y) * Milli + ((x % y) * Milli) \div y

Min(x, y) == IF x < y THEN x ELSE y

\* Step 1 of the extended branch: the membrane potential after
\* "self.v += time * (...) / e.cap".
ExtIntegrateV(nr, e, time) ==
    LET quad == Mul(Mul(e.k, nr.v - e.vr), nr.v - e.vt)
    IN CASE nr.spike_model = "IntrinsicallyBurstingPyramidalDendriteI" ->
              nr.v + Div(Mul(time, quad - Mul(e.vp, nr.vpc - nr.v) - nr.u + nr.vcc), e.cap)
         [] nr.spike_model = "IntrinsicallyBurstingPyramidalSomaI" ->
              nr.v + Div(Mul(time, quad - Mul(e.vp, nr.vcc - nr.v) - nr.u + nr.vpc), e.cap)
         [] OTHER ->
              nr.v + Div(Mul(time, quad - nr.u + nr.vcc + nr.vpc), e.cap)

\* "self.u += time * self.a * (self.b * (self.v - e.vr) - self.u)" with the
\* given b and the already integrated v.
ExtIntegrateU(nr, e, time, b, v) ==
    nr.u + Mul(Mul(time, nr.a), Mul(b, v - e.vr) - nr.u)

\* A firing step that reports the stored potential instead of the peak.
FiredReportsStoredV(nr, b, u, v, peak) ==
    [n |-> [nr EXCEPT !.b = b, !.u = u, !.v = v, !.y = 1000], volt |-> v, spike |-> 1000]

\* A process() result: the neurite afterwards and the returned pair.
Fired(nr, b, u, v, peak) ==
    [n |-> [nr EXCEPT !.b = b, !.u = u, !.v = v, !.y = 1000], volt |-> peak, spike |-> 1000]

\* A quiet step without the "self.y = 0.0" process starts with.
QuietKeepsY(nr, b, u, v) ==
    [n |-> [nr EXCEPT !.b = b, !.u = u, !.v = v], volt |-> v, spike |-> nr.y]

Quiet(nr, b, u, v) ==
    [n |-> [nr EXCEPT !.b = b, !.u = u, !.v = v, !.y = 0], volt |-> v, spike |-> 0]

\* The Some(e) branch of process.
ProcessExt(nr, e, time) ==
    LET v1 == ExtIntegrateV(nr, e, time)
        m == nr.spike_model
    IN CASE m = "EntorhinalStellate" ->
              (LET u1 == ExtIntegrateU(nr, e, time, nr.b, v1)
               IN IF v1 > e.vp THEN Fired(nr, nr.b, u1, nr.c, e.vp)
                  ELSE Quiet(nr, nr.b, u1, v1))
         [] m = "FastSpikingBasket" ->
              (LET x == Mul(25, v1 - e.vr)
                   u1 == IF v1 < e.vr
                         THEN nr.u + Mul(Mul(time, nr.a), -nr.u)
                         ELSE nr.u + Mul(Mul(time, nr.a), Mul(Mul(x, x), x) - nr.u)
               IN IF v1 > e.vp THEN Fired(nr, nr.b, u1, nr.c, e.vp)
                  ELSE Quiet(nr, nr.b, u1, v1))
         [] m = "LowThresholdSpikingNonBasket" ->
              (LET u1 == ExtIntegrateU(nr, e, time, nr.b, v1)
                   peak == e.vp - Mul(100, u1)
               IN IF v1 >= peak
                  THEN Fired(nr, nr.b, Min(u1 + nr.d, 670000), nr.c + Mul(40, u1), peak)
                  ELSE Quiet(nr, nr.b, u1, v1))
         [] m = "ReticularThalamicNeuron" ->
              (LET b1 == IF v1 > -65000 THEN 2000 ELSE 10000
                   u1 == ExtIntegrateU(nr, e, time, b1, v1)
               IN IF v1 > e.vp THEN Fired(nr, b1, u1 + nr.d, nr.c, e.vp)
                  ELSE Quiet(nr, b1, u1, v1))
         [] m = "ThalamicInterneuron" ->
              (LET u1 == ExtIntegrateU(nr, e, time, nr.b, v1)
                   peak == e.vp - Mul(80, u1)
               IN IF v1 >= peak
                  THEN Fired(nr, nr.b, Min(u1 + nr.d, 530000), nr.c + Mul(80, u1), peak)
                  ELSE Quiet(nr, nr.b, u1, v1))
         [] m = "Thalamocortical" ->
              (LET b1 == IF v1 > -65000 THEN 0 ELSE 15000
                   u1 == ExtIntegrateU(nr, e, time, b1, v1)
                   peak == e.vp + Mul(100, u1)
               IN IF v1 >= peak
                  THEN Fired(nr, b1, u1 + nr.d, nr.c - Mul(100, u1), peak)
                  ELSE Quiet(nr, b1, u1, v1))
         [] OTHER ->
              \* IntrinsicallyBurstingPyramidalDendriteI, ...SomaI and "_"
              (LET u1 == ExtIntegrateU(nr, e, time, nr.b, v1)
               IN IF v1 > e.vp THEN Fired(nr, nr.b, u1 + nr.d, nr.c, e.vp)
                  ELSE Quiet(nr, nr.b, u1, v1))

\* The None branch with "self.vcc + self.vpc" as in the Some branch.
ProcessSimpleWithVpc(nr, time) ==
    LET v1 == nr.v + Mul(time, Mul(Mul(40, nr.v), nr.v) + Mul(5000, nr.v) + 140000
                               - nr.u + nr.vcc + nr.vpc)
        u1 == nr.u + Mul(Mul(time, nr.a), Mul(nr.b, v1) - nr.u)
    IN IF v1 >= 30000 THEN Fired(nr, nr.b, u1 + nr.d, nr.c, 30000)
       ELSE Quiet(nr, nr.b, u1, v1)

\* The None branch of process.
ProcessSimple(nr, time) ==
    LET v1 == nr.v + Mul(time, Mul(Mul(40, nr.v), nr.v) + Mul(5000, nr.v) + 140000
                               - nr.u + nr.vcc + nr.vcc)
        u1 == nr.u + Mul(Mul(time, nr.a), Mul(nr.b, v1) - nr.u)
    IN IF v1 >= 30000 THEN Fired(nr, nr.b, u1 + nr.d, nr.c, 30000)
       ELSE Quiet(nr, nr.b, u1, v1)

ProcessOf(nr, time) ==
    IF nr.ext # <<>> THEN ProcessExt(nr, nr.ext[1], time) ELSE ProcessSimple(nr, time)

----------------------------------------------------------------------------
(* SpecDyn: one neurite under set_spike_model, reset and process            *)

\* Number of process calls in a run.
MaxSteps == 3

\* The time increments handed to process (0.5 and 1.0).
Times == {500, 1000}

\* process is followed from the states whose u and v are at most MaxAbs
\* thousandths in magnitude (the explicit Euler step diverges for some
\* presets).
MaxAbs == 500000

Abs(x) == IF x < 0 THEN -x ELSE x

NoCall == [op |-> "new", time |-> 0, volt |-> 0, spike |-> 0]

SetSpikeModel(m) ==
    /\ neurite' = SetSpikeModelOf(neurite, m)
    /\ out' = [op |-> "set_spike_model", time |-> 0, volt |-> 0, spike |-> 0]
    /\ UNCHANGED <<steps, treeVars, elVars, stpVars, synVars, pairVars>>

Reset ==
    /\ neurite' = ResetOf(neurite)
    /\ out' = [op |-> "reset", time |-> 0, volt |-> 0, spike |-> 0]
    /\ UNCHANGED <<steps, treeVars, elVars, stpVars, synVars, pairVars>>

Process(time) ==
    /\ steps < MaxSteps
    /\ Abs(neurite.u) <= MaxAbs
    /\ Abs(neurite.v) <= MaxAbs
    /\ LET r == ProcessOf(neurite, time)
       IN /\ neurite' = r.n
          /\ out' = [op |-> "process", time |-> time, volt |-> r.volt, spike |-> r.spike]
    /\ steps' = steps + 1
    /\ UNCHANGED <<treeVars, elVars, stpVars, synVars, pairVars>>

----------------------------------------------------------------------------
(* Electrodes: PulseElectrode, PulsatingElectrode, SinusoidalElectrode,     *)
(* PoissonElectrode.  One record shape serves the four structs; a field a   *)
(* struct does not have stays 0.  Times and voltages are in thousandths.    *)

\* crate::system::TIME_INC, the time one process() call adds to the
\* accumulator.
TimeInc == 250000

\* The accumulator is followed up to MaxTicks increments, and a run up to
\* MaxTicks process calls after an on() or off().
MaxTicks == 6

\* The values of k the Poisson draw is followed for: 0..MaxK.
MaxK == 2

\* f64 +infinity (1000.0 / 0.0).
Infinity == 2 ^ 30

ElectrodeKind == {"Pulse", "Pulsating", "Sinusoidal", "Poisson"}

PulseElectrodeNew(v, d) ==
    [kind |-> "Pulse", active |-> FALSE, a |-> 0, v |-> v, d |-> d,
     t |-> 0, p |-> 0, f |-> 0, y |-> 0]

PulsatingElectrodeNew(v, d, t) ==
    [kind |-> "Pulsating", active |-> FALSE, a |-> 0, v |-> v, d |-> d,
     t |-> t, p |-> 0, f |-> 0, y |-> 0]

SinusoidalElectrodeNew(v, d, p) ==
    [kind |-> "Sinusoidal", active |-> FALSE, a |-> 0, v |-> v, d |-> d,
     t |-> 0, p |-> p, f |-> 0, y |-> 0]

PoissonElectrodeNew(v, f) ==
    [kind |-> "Poisson", active |-> FALSE, a |-> 0, v |-> v, d |-> 1000,
     t |-> 0, p |-> 0, f |-> f, y |-> 0]

\* on() and off(): the same body in the four impls.
ElectrodeOn(e) == [e EXCEPT !.active = TRUE]

ElectrodeOff(e) == [e EXCEPT !.active = FALSE]

\* output()
ElectrodeOutput(e) == e.y

\* "x % m <= d" and "x % m < b" on f64, x >= 0: the remainder by 0.0 is NaN
\* and every comparison with NaN is false; the remainder by +infinity is x.
RemLe(x, m, d) ==
    IF m = 0 THEN FALSE ELSE IF m >= Infinity THEN x <= d ELSE (x % m) <= d

RemLt(x, m, b) ==
    IF m = 0 THEN FALSE ELSE IF m >= Infinity THEN x < b ELSE (x % m) < b

PlusInf(x, y) == IF x >= Infinity \/ y >= Infinity THEN Infinity ELSE x + y

\* The inactive branch without "self.y = 0.0".
InactiveProcessStaleOutput(e) ==
    [e |-> [e EXCEPT !.a = 0], ret |-> 0, drew |-> FALSE]

\* The branch of every process() taken while the electrode is inactive.
InactiveProcess(e) ==
    [e |-> [e EXCEPT !.a = 0, !.y = 0], ret |-> 0, drew |-> FALSE]

\* PulseElectrode::process
PulseProcessStrict(e) ==
    IF e.active
    THEN IF e.a < e.d
         THEN [e |-> [e EXCEPT !.a = e.a + TimeInc, !.y = e.v], ret |-> e.v, drew |-> FALSE]
         ELSE [e |-> [e EXCEPT !.a = 0, !.active = FALSE, !.y = 0], ret |-> 0, drew |-> FALSE]
    ELSE InactiveProcess(e)

PulseProcess(e) ==
    IF e.active
    THEN IF e.a <= e.d
         THEN [e |-> [e EXCEPT !.a = e.a + TimeInc, !.y = e.v], ret |-> e.v, drew |-> FALSE]
         ELSE [e |-> [e EXCEPT !.a = 0, !.active = FALSE, !.y = 0], ret |-> 0, drew |-> FALSE]
    ELSE InactiveProcess(e)

\* PulsatingElectrode::process
PulsatingProcessStrict(e) ==
    IF e.active
    THEN LET a1 == e.a + TimeInc
         IN IF e.d + e.t # 0 /\ (a1 % (e.d + e.t)) < e.d
            THEN [e |-> [e EXCEPT !.a = a1, !.y = e.v], ret |-> e.v, drew |-> FALSE]
            ELSE [e |-> [e EXCEPT !.a = a1, !.y = 0], ret |-> 0, drew |-> FALSE]
    ELSE InactiveProcess(e)

PulsatingProcess(e) ==
    IF e.active
    THEN LET a1 == e.a + TimeInc
         IN IF RemLe(a1, e.d + e.t, e.d)
            THEN [e |-> [e EXCEPT !.a = a1, !.y = e.v], ret |-> e.v, drew |-> FALSE]
            ELSE [e |-> [e EXCEPT !.a = a1, !.y = 0], ret |-> 0, drew |-> FALSE]
    ELSE InactiveProcess(e)

\* sin(2 * PI * x / d) * 0.5 + 0.5 for x a whole number of quarter periods
\* of d; the electrodes of the model are given periods of four increments
\* and phases of whole increments, so that no other argument occurs.
HalfSinePlusHalf(x, d) ==
    LET q == ((4 * x) \div d) % 4
    IN CASE q = 0 -> 500
         [] q = 1 -> 1000
         [] q = 2 -> 500
         [] q = 3 -> 0

\* SinusoidalElectrode::process
SinusoidalProcess(e) ==
    IF e.active
    THEN LET a1 == e.a + TimeInc
             y1 == Mul(e.v, HalfSinePlusHalf(a1 - e.p, e.d))
         IN [e |-> [e EXCEPT !.a = a1, !.y = y1], ret |-> y1, drew |-> FALSE]
    ELSE InactiveProcess(e)

\* "self.t = (1000.0 / k as f64) - 1.0"
PoissonSpacing(k) == IF k = 0 THEN Infinity ELSE Div(1000000, k * Milli) - 1000

\* PoissonElectrode::process; k is the count the loop over the uniform draw
\* r = random() ends with.
PoissonRedraws(prev_a, a1) == prev_a = 0 \/ RemLt(a1, 1000000, prev_a)

PoissonProcess(e, k) ==
    IF e.active
    THEN LET prev_a == e.a
             a1 == e.a + TimeInc
             draw == PoissonRedraws(prev_a, a1)
             t1 == IF draw THEN PoissonSpacing(k) ELSE e.t
         IN IF RemLe(a1, PlusInf(e.d, t1), e.d)
            THEN [e |-> [e EXCEPT !.a = a1, !.t = t1, !.y = e.v], ret |-> e.v, drew |-> draw]
            ELSE [e |-> [e EXCEPT !.a = a1, !.t = t1, !.y = 0], ret |-> 0, drew |-> draw]
    ELSE InactiveProcess(e)

\* Electrode::process through the trait object.
ElectrodeProcess(e, k) ==
    CASE e.kind = "Pulse" -> PulseProcess(e)
      [] e.kind = "Pulsating" -> PulsatingProcess(e)
      [] e.kind = "Sinusoidal" -> SinusoidalProcess(e)
      [] e.kind = "Poisson" -> PoissonProcess(e, k)

----------------------------------------------------------------------------
(* SpecElec: one electrode under on, off and process                        *)

\* The electrodes the runs start from.
Electrodes ==
    { PulseElectrodeNew(5000, d) : d \in {0, 500000, 600000} }
    \cup { PulsatingElectrodeNew(5000, dt[1], dt[2]) :
              dt \in {<<250000, 500000>>, <<500000, 250000>>, <<0, 0>>} }
    \cup { SinusoidalElectrodeNew(5000, 4 * TimeInc, p) : p \in {0, TimeInc} }
    \cup { PoissonElectrodeNew(5000, 1000) }

\* hist: the last call (op), what process returned (ret), whether it drew a
\* new k (drew), the number of process calls since the last on() or off()
\* (calls), and whether that on() found the electrode inactive with
\* accumulator 0 (clean).
NoElectrodeCall == [op |-> "new", ret |-> 0, drew |-> FALSE, calls |-> 0, clean |-> FALSE]

On ==
    /\ el' = ElectrodeOn(el)
    /\ hist' = [op |-> "on", ret |-> 0, drew |-> FALSE, calls |-> 0,
                clean |-> (~el.active /\ el.a = 0)]
    /\ UNCHANGED <<treeVars, dynVars, stpVars, synVars, pairVars>>

Off ==
    /\ el' = ElectrodeOff(el)
    /\ hist' = [op |-> "off", ret |-> 0, drew |-> FALSE, calls |-> 0, clean |-> FALSE]
    /\ UNCHANGED <<treeVars, dynVars, stpVars, synVars, pairVars>>

ProcessElectrode(k) ==
    /\ hist.calls < MaxTicks
    /\ el.active => el.a < MaxTicks * TimeInc
    /\ LET r == ElectrodeProcess(el, k)
       IN /\ el' = r.e
          /\ hist' = [hist EXCEPT !.op = "process", !.ret = r.ret, !.drew = r.drew,
                                  !.calls = hist.calls + 1]
    /\ UNCHANGED <<treeVars, dynVars, stpVars, synVars, pairVars>>

----------------------------------------------------------------------------
(* ShortTermPlasticity.  Values are in thousandths.                         *)

ShortTermPlasticityNew(tf, td, p) ==
    [f |-> Milli, tf |-> tf, d |-> 0, td |-> td, p |-> p, y |-> 0]

\* learn with the output computed from the depression after its update.
LearnOfFreshD(s, spike) ==
    LET f1 == IF spike THEN s.f + Mul(s.p, Milli - s.f) ELSE s.f - Div(s.f, s.tf)
        d1 == IF spike THEN s.d - Mul(f1, s.d) ELSE s.d + Div(Milli - s.d, s.td)
    IN [s |-> [s EXCEPT !.f = f1, !.d = d1, !.y = Mul(f1, d1)], ret |-> Mul(f1, d1)]

\* learn with "self.d -= self.f" on a spike.
LearnOfSubtractsF(s, spike) ==
    LET pd == s.d
        f1 == IF spike THEN s.f + Mul(s.p, Milli - s.f) ELSE s.f - Div(s.f, s.tf)
        d1 == IF spike THEN s.d - f1 ELSE s.d + Div(Milli - s.d, s.td)
    IN [s |-> [s EXCEPT !.f = f1, !.d = d1, !.y = Mul(f1, pd)], ret |-> Mul(f1, pd)]

\* learn with "self.f -= self.f * self.tf" when there is no spike.
LearnOfDecayTimesTf(s, spike) ==
    LET pd == s.d
        f1 == IF spike THEN s.f + Mul(s.p, Milli - s.f) ELSE s.f - Mul(s.f, s.tf)
        d1 == IF spike THEN s.d - Mul(f1, s.d) ELSE s.d + Div(Milli - s.d, s.td)
    IN [s |-> [s EXCEPT !.f = f1, !.d = d1, !.y = Mul(f1, pd)], ret |-> Mul(f1, pd)]

\* self.learn(spike): the plasticity afterwards and the returned y.
LearnOf(s, spike) ==
    LET pd == s.d
        f1 == IF spike THEN s.f + Mul(s.p, Milli - s.f) ELSE s.f - Div(s.f, s.tf)
        d1 == IF spike THEN s.d - Mul(f1, s.d) ELSE s.d + Div(Milli - s.d, s.td)
    IN [s |-> [s EXCEPT !.f = f1, !.d = d1, !.y = Mul(f1, pd)], ret |-> Mul(f1, pd)]

----------------------------------------------------------------------------
(* SpecStp: one ShortTermPlasticity under learn                             *)

\* Number of learn(true) calls in a run; learn(false) is not counted, the
\* values it produces settle.
MaxSpikes == 3

\* learn(true) is taken while |f| and |d| are within this many thousandths,
\* which keeps the products of the following calls in range.
MaxStp == 10000

\* The (tf, td, p) the plasticities of the runs are created with.
StpTf == {500, 1000, 2000}
StpTd == {500, 1000, 2000}
StpP == {-1000, 500, 1000, 3000}

NoLearn == [op |-> "new", spike |-> FALSE, ret |-> 0, spikes |-> 0]

Learn(spike) ==
    /\ spike => /\ learned.spikes < MaxSpikes
                /\ Abs(stp.f) <= MaxStp
                /\ Abs(stp.d) <= MaxStp
    /\ LET r == LearnOf(stp, spike)
       IN /\ stp' = r.s
          /\ learned' = [op |-> "learn", spike |-> spike, ret |-> r.ret,
                         spikes |-> IF spike THEN learned.spikes + 1 ELSE learned.spikes]
    /\ UNCHANGED <<treeVars, dynVars, elVars, synVars, pairVars>>

----------------------------------------------------------------------------
(* Synapses.  ExcitatorySynapse is the one struct that implements Synapse;  *)
(* ShuntingInhibitorySynapse has its constructor only.  One record shape    *)
(* serves both; s stays 0 where the struct has no such field.               *)

Max(x, y) == IF x > y THEN x ELSE y

PresynapticInput == {"Electrode", "Sensor", "Neurite"}

\* "1.0.min(-2.0.max(s))": the method call binds tighter than the unary
\* minus, so that the inner term is -(2.0.max(s)).
ShuntingScalar(s) == Min(Milli, -Max(2 * Milli, s))

\* new with "w: 1.0".
ExcitatorySynapseNewUnitWeight(x_pre, st, tx, x_max) ==
    [syn_type |-> "Excitatory", x_pre |-> x_pre, x |-> 0, tx |-> tx, s |-> 0,
     stp |-> st, w |-> Milli, x_max |-> x_max]

ExcitatorySynapseNew(x_pre, st, tx, x_max) ==
    [syn_type |-> "Excitatory", x_pre |-> x_pre, x |-> 0, tx |-> tx, s |-> 0,
     stp |-> st, w |-> 0, x_max |-> x_max]

ShuntingInhibitorySynapseNew(x_pre, st, s, tx, x_max) ==
    [syn_type |-> "ShuntingInhibitory", x_pre |-> x_pre, x |-> 0, tx |-> tx,
     s |-> ShuntingScalar(s), stp |-> st, w |-> 0, x_max |-> x_max]

\* The value the match on self.x_pre compares with 0.0.
PresynapticOutput(x_pre) ==
    CASE x_pre = "Electrode" -> ElectrodeOutput(el)
      [] x_pre = "Sensor" -> sensor
      [] x_pre = "Neurite" -> neurite.y

\* input()
SynapseInput(sy) == sy.x

\* process with "output() >= 0.0" as the presynaptic test.
ExcitatoryProcessOfNonNegative(sy, pre) ==
    LET x1 == sy.x + Div(-sy.x, sy.tx)
        l == LearnOf(sy.stp, pre >= 0)
        x2 == x1 + Mul(Mul(sy.x_max, l.s.y), sy.w)
    IN [s |-> [sy EXCEPT !.x = x2, !.stp = l.s], ret |-> x2, spike |-> pre >= 0]

\* ExcitatorySynapse::process, pre being the presynaptic output.
ExcitatoryProcessOf(sy, pre) ==
    LET x1 == sy.x + Div(-sy.x, sy.tx)
        l == LearnOf(sy.stp, pre > 0)
        x2 == x1 + Mul(Mul(sy.x_max, l.s.y), sy.w)
    IN [s |-> [sy EXCEPT !.x = x2, !.stp = l.s], ret |-> x2, spike |-> pre > 0]

----------------------------------------------------------------------------
(* SpecSyn: one synapse; its presynaptic source is the electrode el, the    *)
(* neurite, or a sensor                                                     *)

\* Number of process calls on the synapse in a run.
MaxCalls == 4

\* The values handed to ShuntingInhibitorySynapse::new as s.
ShuntingInputs == {-3000, -2000, -500, 0, 500, 1000, 2500, 5000}

\* What a Sensor's output() may return (the trait has no implementation).
SensorOutputs == {-1000, 0, 2000}

NoSynapseCall == [op |-> "new", arg |-> 0, ret |-> 0, spike |-> FALSE, calls |-> 0]

SynapseProcess ==
    /\ syn.syn_type = "Excitatory"
    /\ synout.calls < MaxCalls
    /\ LET r == ExcitatoryProcessOf(syn, PresynapticOutput(syn.x_pre))
       IN /\ syn' = r.s
          /\ synout' = [op |-> "process", arg |-> 0, ret |-> r.ret, spike |-> r.spike,
                        calls |-> synout.calls + 1]
    /\ UNCHANGED <<sensor, treeVars, dynVars, elVars, stpVars, pairVars>>

\* The presynaptic sensor takes a new reading.
Sense(o) ==
    /\ syn.x_pre = "Sensor"
    /\ sensor' = o
    /\ synout' = [synout EXCEPT !.op = "sense"]
    /\ UNCHANGED <<syn, treeVars, dynVars, elVars, stpVars, pairVars>>

----------------------------------------------------------------------------
(* SpecPair: two PoissonElectrodes created with the same arguments and      *)
(* given the same calls.  Each process call draws from rand::random(); the  *)
(* struct holds no generator and new takes no seed.                         *)

NoPairCall(e) == [a |-> e, b |-> e, op |-> "new", ra |-> 0, rb |-> 0, calls |-> 0]

PairOn ==
    /\ pair' = [pair EXCEPT !.a = ElectrodeOn(pair.a), !.b = ElectrodeOn(pair.b),
                            !.op = "on", !.calls = 0]
    /\ UNCHANGED <<treeVars, dynVars, elVars, stpVars, synVars>>

PairOff ==
    /\ pair' = [pair EXCEPT !.a = ElectrodeOff(pair.a), !.b = ElectrodeOff(pair.b),
                            !.op = "off", !.calls = 0]
    /\ UNCHANGED <<treeVars, dynVars, elVars, stpVars, synVars>>

PairProcess(ka, kb) ==
    /\ pair.calls < MaxTicks
    /\ pair.a.active => pair.a.a < MaxTicks * TimeInc
    /\ LET r1 == PoissonProcess(pair.a, ka)
           r2 == PoissonProcess(pair.b, kb)
       IN pair' = [a |-> r1.e, b |-> r2.e, op |-> "process", ra |-> r1.ret, rb |-> r2.ret,
                   calls |-> pair.calls + 1]
    /\ UNCHANGED <<treeVars, dynVars, elVars, stpVars, synVars>>

----------------------------------------------------------------------------
(* Specifications                                                           *)

NoTreeCall == Call("new", None, None, "none")

\* The plasticity, the synapse and the electrode pair of the specifications
\* that do not run them.
Unwired ==
    /\ stp = ShortTermPlasticityNew(2000, 2000, 500)
    /\ learned = NoLearn
    /\ syn = ExcitatorySynapseNew("Sensor", ShortTermPlasticityNew(2000, 2000, 500), 2000, 3000)
    /\ sensor = 0
    /\ synout = NoSynapseCall
    /\ pair = NoPairCall(PoissonElectrodeNew(5000, 1000))

Init ==
    /\ ntype \in Pools
    /\ child = [n \in Neurites |-> <<>>]
    /\ parent = [n \in Neurites |-> None]
    /\ last = NoTreeCall
    /\ neurite = New("Soma", "RegularSpiking")
    /\ out = NoCall
    /\ steps = 0
    /\ el = PulseElectrodeNew(5000, 500000)
    /\ hist = NoElectrodeCall
    /\ Unwired

Next ==
    \/ \E p \in Neurites, c \in Neurites : AddChild(p, c)
    \/ \E c \in Neurites, p \in Neurites : SetParent(c, p)
    \/ \E n \in Neurites, index \in 0..MaxEdges : RemoveChild(n, index)
    \/ \E n \in Neurites, index \in 0..MaxEdges : PruneChild(n, index)

Spec == Init /\ [][Next]_vars

InitDyn ==
    /\ ntype = <<"Soma", "BasalProximal", "BasalProximal", "BasalDistal">>
    /\ child = [n \in Neurites |-> <<>>]
    /\ parent = [n \in Neurites |-> None]
    /\ last = NoTreeCall
    /\ \E t \in NeuriteType, m \in SpikeModel, ch \in {<<>>, <<2>>} :
          neurite = [New(t, m) EXCEPT !.child = ch]
    /\ out = NoCall
    /\ steps = 0
    /\ el = PulseElectrodeNew(5000, 500000)
    /\ hist = NoElectrodeCall
    /\ Unwired

NextDyn ==
    \/ \E m \in SpikeModel : SetSpikeModel(m)
    \/ Reset
    \/ \E time \in Times : Process(time)

SpecDyn == InitDyn /\ [][NextDyn]_vars

InitElec ==
    /\ ntype = <<"Soma", "BasalProximal", "BasalProximal", "BasalDistal">>
    /\ child = [n \in Neurites |-> <<>>]
    /\ parent = [n \in Neurites |-> None]
    /\ last = NoTreeCall
    /\ neurite = New("Soma", "RegularSpiking")
    /\ out = NoCall
    /\ steps = 0
    /\ el \in Electrodes
    /\ hist = NoElectrodeCall
    /\ Unwired

NextElec ==
    \/ On
    \/ Off
    \/ \E k \in 0..MaxK : ProcessElectrode(k)

SpecElec == InitElec /\ [][NextElec]_vars

\* The tree, the neurite and the electrode of the specifications that do not
\* run them.
AtRest ==
    /\ ntype = <<"Soma", "BasalProximal", "BasalProximal", "BasalDistal">>
    /\ child = [n \in Neurites |-> <<>>]
    /\ parent = [n \in Neurites |-> None]
    /\ last = NoTreeCall
    /\ out = NoCall
    /\ steps = 0
    /\ hist = NoElectrodeCall

InitStp ==
    /\ AtRest
    /\ neurite = New("Soma", "RegularSpiking")
    /\ el = PulseElectrodeNew(5000, 500000)
    /\ \E tf \in StpTf, td \in StpTd, p \in StpP : stp = ShortTermPlasticityNew(tf, td, p)
    /\ learned = NoLearn
    /\ syn = ExcitatorySynapseNew("Sensor", ShortTermPlasticityNew(2000, 2000, 500), 2000, 3000)
    /\ sensor = 0
    /\ synout = NoSynapseCall
    /\ pair = NoPairCall(PoissonElectrodeNew(5000, 1000))

NextStp ==
    \/ Learn(TRUE)
    \/ Learn(FALSE)

\* learn(false) is repeated for ever once the learn(true) calls have ended.
SpecStp == InitStp /\ [][NextStp]_vars /\ WF_vars(Learn(FALSE))

\* The synapses the runs start from.
Synapses ==
    { ExcitatorySynapseNew(x_pre, ShortTermPlasticityNew(2000, 2000, 500), tx, 3000) :
          x_pre \in PresynapticInput, tx \in {1000, 2000} }

InitSyn ==
    /\ AtRest
    /\ neurite = New("Soma", "ReticularThalamicNeuron")
    /\ el = PulsatingElectrodeNew(5000, 250000, 500000)
    /\ stp = ShortTermPlasticityNew(2000, 2000, 500)
    /\ learned = NoLearn
    /\ sensor = 0
    /\ \/ syn \in Synapses /\ synout = NoSynapseCall
       \/ \E s \in ShuntingInputs :
             /\ syn = ShuntingInhibitorySynapseNew("Sensor", ShortTermPlasticityNew(2000, 2000, 500),
                                                    s, 2000, 3000)
             /\ synout = [NoSynapseCall EXCEPT !.arg = s]
    /\ pair = NoPairCall(PoissonElectrodeNew(5000, 1000))

NextSyn ==
    \/ SynapseProcess
    \/ \E o \in SensorOutputs : Sense(o)
    \/ syn.x_pre = "Electrode" /\ (On \/ Off \/ ProcessElectrode(0))
    \/ syn.x_pre = "Neurite" /\ (Reset \/ \E time \in Times : Process(time))

SpecSyn == InitSyn /\ [][NextSyn]_vars

InitPair ==
    /\ AtRest
    /\ neurite = New("Soma", "RegularSpiking")
    /\ el = PulseElectrodeNew(5000, 500000)
    /\ stp = ShortTermPlasticityNew(2000, 2000, 500)
    /\ learned = NoLearn
    /\ syn = ExcitatorySynapseNew("Sensor", ShortTermPlasticityNew(2000, 2000, 500), 2000, 3000)
    /\ sensor = 0
    /\ synout = NoSynapseCall
    /\ \E f \in {1000, 2000} : pair = NoPairCall(PoissonElectrodeNew(5000, f))

NextPair ==
    \/ PairOn
    \/ PairOff
    \/ \E ka \in 0..MaxK, kb \in 0..MaxK : PairProcess(ka, kb)

SpecPair == InitPair /\ [][NextPair]_vars

----------------------------------------------------------------------------

(* Properties                                                               *)

\* The type-adjacency table: <<parent type, child type>>.
LegalTable ==
    { <<"Soma", "BasalProximal">>, <<"Soma", "ApicalTrunk">>, <<"Soma", "Axon">>,
      <<"BasalProximal", "BasalProximal">>, <<"BasalProximal", "BasalDistal">>,
      <<"BasalDistal", "BasalDistal">>,
      <<"ApicalTrunk", "ApicalTrunk">>, <<"ApicalTrunk", "ApicalTuft">>,
      <<"ApicalTuft", "ApicalTuft">>,
      <<"Axon", "Axon">> }

\* The children of n under the child lists ch, and everything reachable
\* from n by following child links one or more times.
Kids(ch, n) == {ch[n][i] : i \in DOMAIN ch[n]}

RECURSIVE ReachN(_, _, _)
ReachN(ch, S, k) ==
    IF k = 0 THEN S ELSE ReachN(ch, S \cup UNION {Kids(ch, x) : x \in S}, k - 1)

Descendants(ch, n) == ReachN(ch, Kids(ch, n), Cardinality(Neurites))

CountOfType(n, t) == Cardinality({i \in DOMAIN child[n] : ntype[child[n][i]] = t})

\* C1: parent.add_child(child) returns Ok and appends the child at the end
\* of the parent's list exactly when the pair of types is in the table and a
\* Soma parent does not already hold an ApicalTrunk (resp. Axon) child; in
\* every other case it returns Err and leaves the list unchanged.
C1_AddChildFollowsTable ==
    [][last'.op = "add_child" =>
         LET p == last'.n
             c == last'.arg
             legal == /\ <<ntype[p], ntype[c]>> \in LegalTable
                      /\ (ntype[p] = "Soma" /\ ntype[c] \in {"ApicalTrunk", "Axon"})
                            => CountOfType(p, ntype[c]) = 0
         IN IF legal
            THEN last'.ret = "Ok" /\ child' = [child EXCEPT ![p] = Append(@, c)]
            ELSE last'.ret = "Err" /\ child' = child]_vars

\* C2: every parent-to-child edge obeys the type-adjacency table, and every
\* Soma has at most one ApicalTrunk child and at most one Axon child.
C2_EdgesObeyTable ==
    \A n \in Neurites :
        /\ \A i \in DOMAIN child[n] : <<ntype[n], ntype[child[n][i]]>> \in LegalTable
        /\ ntype[n] = "Soma" =>
              CountOfType(n, "ApicalTrunk") <= 1 /\ CountOfType(n, "Axon") <= 1

\* A Soma that holds an ApicalTrunk (or Axon) child has just refused a second one.
C2_Witness ==
    /\ last.op = "add_child" /\ last.ret = "Err"
    /\ ntype[last.n] = "Soma"
    /\ ntype[last.arg] \in {"ApicalTrunk", "Axon"}
    /\ CountOfType(last.n, ntype[last.arg]) = 1

\* C3: the child lists reachable from any Soma are acyclic: no neurite at
\* or below a Soma is reachable from itself by following child links.
C3_AcyclicBelowSoma ==
    \A s \in Neurites :
        ntype[s] = "Soma" =>
            \A n \in {s} \cup Descendants(child, s) : n \notin Descendants(child, n)

\* C4: child.set_parent(parent), called with another neurite, returns Ok and
\* sets the child's parent exactly when the parent's type is a legal parent
\* type for the child's type, and returns Err with parent unchanged otherwise.
C4_SetParentFollowsTable ==
    [][(last'.op = "set_parent" /\ last'.n # last'.arg) =>
         LET c == last'.n
             p == last'.arg
         IN IF <<ntype[p], ntype[c]>> \in LegalTable
            THEN last'.ret = "Ok" /\ parent' = [parent EXCEPT ![c] = p]
            ELSE last'.ret = "Err" /\ parent' = parent]_vars

\* C5: for a valid index i, n.remove_child(i) returns true, removes child i
\* from n's list and re-parents every former child g of the removed neurite
\* onto the removed neurite's own parent: g's parent reference is that parent
\* and g is in that parent's child list.
C5_RemoveChildReparents ==
    [][(last'.op = "remove_child" /\ last'.arg < Len(child[last'.n])) =>
         LET n == last'.n
             i == last'.arg
             r == child[n][i + 1]
             kept == VecRemove(child[n], i)
         IN /\ last'.ret = "true"
            /\ Len(child'[n]) >= Len(kept)
            /\ SubSeq(child'[n], 1, Len(kept)) = kept
            /\ \A g \in Kids(child, r) :
                  /\ parent'[g] = parent[r]
                  /\ parent[r] # None => g \in Kids(child', parent[r])]_vars

\* C6: no call panics; in particular remove_child(i) on a child that itself
\* has one or more children returns normally.
C6_RemoveChildNeverPanics ==
    last.op = "remove_child" => last.ret # "panic"

\* C7: for a valid index i, n.prune_child(i) returns true and removes exactly
\* child i from n's list, keeping the others in order; afterwards neither the
\* pruned child nor any of its descendants is reachable from n.
C7_PruneDiscardsSubtree ==
    [][(last'.op = "prune_child" /\ last'.arg < Len(child[last'.n])) =>
         LET n == last'.n
             i == last'.arg
             r == child[n][i + 1]
         IN /\ last'.ret = "true"
            /\ child'[n] = VecRemove(child[n], i)
            /\ ({r} \cup Descendants(child, r)) \cap Descendants(child', n) = {}]_vars

\* C8: remove_child(i) and prune_child(i) with i at or past the number of
\* children return false and leave every child list, every parent reference
\* and every type unchanged.
C8_OutOfRangeIsFalse ==
    [][(last'.op \in {"remove_child", "prune_child"} /\ last'.arg >= Len(child[last'.n])) =>
         (last'.ret = "false" /\ UNCHANGED <<child, parent, ntype>>)]_vars

\* A call with the index equal to the length of a non-empty child list has
\* returned false.
C8_Witness ==
    /\ last.op \in {"remove_child", "prune_child"}
    /\ last.ret = "false"
    /\ Len(child[last.n]) > 0
    /\ last.arg = Len(child[last.n])

\* C9: set_spike_model(m) leaves (a, b, c, d, u, v, y, ext) equal, field by
\* field, to what Neurite::new(type, m) gives a fresh neurite of model m.
C9_SetSpikeModelEqualsNew ==
    out.op = "set_spike_model" =>
        LET f == New(neurite.neurite_type, neurite.spike_model)
        IN /\ neurite.a = f.a /\ neurite.b = f.b /\ neurite.c = f.c /\ neurite.d = f.d
           /\ neurite.u = f.u /\ neurite.v = f.v /\ neurite.y = f.y
           /\ neurite.ext = f.ext

\* C10: reset() on a neurite of model m leaves (u, v, y) equal to the initial
\* (u, v, y) that Neurite::new and set_spike_model assign for m.
C10_ResetRestoresInitial ==
    out.op = "reset" =>
        LET f == NewArm(neurite.spike_model)
            g == SetSpikeModelArm(neurite.spike_model)
        IN /\ <<neurite.u, neurite.v, neurite.y>> = <<f.u, f.v, f.y>>
           /\ <<neurite.u, neurite.v, neurite.y>> = <<g.u, g.v, g.y>>

----------------------------------------------------------------------------
(* Properties of set_spike_model, reset and process (SpecDyn)               *)

\* C11: set_spike_model(m) leaves id, neurite_type, the synapse list, the
\* parent reference and the child list as they were, whatever the model and
\* the state it is called in.
C11_SetSpikeModelKeepsStructure ==
    [][out'.op = "set_spike_model" =>
          /\ neurite'.id = neurite.id
          /\ neurite'.neurite_type = neurite.neurite_type
          /\ neurite'.syn = neurite.syn
          /\ neurite'.parent = neurite.parent
          /\ neurite'.child = neurite.child]_vars

\* set_spike_model has run on a neurite that has a child and has been
\* processed.
C11_Witness ==
    out.op = "set_spike_model" /\ neurite.child # <<>> /\ steps > 0

\* C12: reset() changes nothing but u, v and y.
C12_ResetChangesOnlyUVY ==
    [][out'.op = "reset" =>
          \A f \in {"id", "neurite_type", "spike_model", "a", "b", "c", "d", "ext",
                    "vcc", "vpc", "syn", "parent", "child"} :
              neurite'[f] = neurite[f]]_vars

\* reset has run on a neurite whose b the process calls before it rewrote.
C12_Witness ==
    /\ out.op = "reset"
    /\ steps > 0
    /\ neurite.spike_model \in {"ReticularThalamicNeuron", "Thalamocortical"}
    /\ neurite.b # SetSpikeModelArm(neurite.spike_model).b

\* The models whose preset carries k, gcc, gpc, vr, vt, vp and cap.
ExtendedModels ==
    {"ChatteringII", "EntorhinalStellate", "FastSpikingBasket",
     "HippocampalCA1PyramidalHighThresholdBursting",
     "HippocampalCA1PyramidalLowThresholdBurstingI",
     "HippocampalCA1PyramidalLowThresholdBurstingII",
     "HippocampalCA1PyramidalNonBursting", "IntrinsicallyBurstingPyramidal",
     "IntrinsicallyBurstingPyramidalDendriteI",
     "IntrinsicallyBurstingPyramidalDendriteII",
     "IntrinsicallyBurstingPyramidalSomaI", "IntrinsicallyBurstingPyramidalSomaII",
     "LatentSpikingNonBasket", "LatentSpikingNonBasketDendrite",
     "LowThresholdSpikingNonBasket", "RegularSpikingPyramidalI",
     "RegularSpikingPyramidalII", "RegularSpikingPyramidalL2L3Dendrite",
     "RegularSpikingPyramidalL4Dendrite", "RegularSpikingPyramidalL5L6Dendrite",
     "RegularSpikingSpinyStellate", "RegularSpikingSpinyStellateDendrite",
     "ReticularThalamicNeuron", "SpinyProjection", "ThalamicInterneuron",
     "Thalamocortical"}

\* C13: in every state reached from new by set_spike_model, reset and
\* process, ext is Some exactly when spike_model is an extended model, and
\* None exactly when it is a simple one.
C13_ExtMatchesModel ==
    /\ neurite.ext # <<>> <=> neurite.spike_model \in ExtendedModels
    /\ neurite.ext # <<>> =>
          DOMAIN neurite.ext[1] = {"k", "gcc", "gpc", "vr", "vt", "vp", "cap"}

\* set_spike_model has just installed an extended model on a neurite that
\* has been processed.
C13_Witness ==
    /\ out.op = "set_spike_model"
    /\ steps > 0
    /\ neurite.ext # <<>>
    /\ neurite.spike_model = "SpinyProjection"

\* The potential a process(time) call integrates before its threshold test.
IntegratedV(nr, time) ==
    IF nr.ext # <<>>
    THEN ExtIntegrateV(nr, nr.ext[1], time)
    ELSE nr.v + Mul(time, Mul(Mul(40, nr.v), nr.v) + Mul(5000, nr.v) + 140000
                          - nr.u + nr.vcc + nr.vcc)

\* The peak the threshold test of a process(time) call on an extended model
\* compares with, and the u it is computed from.
PeakU(nr, time) ==
    LET e == nr.ext[1]
        v1 == IntegratedV(nr, time)
    IN IF nr.spike_model = "Thalamocortical"
       THEN ExtIntegrateU(nr, e, time, IF v1 > -65000 THEN 0 ELSE 15000, v1)
       ELSE ExtIntegrateU(nr, e, time, nr.b, v1)

Peak(nr, time) ==
    LET e == nr.ext[1]
    IN CASE nr.spike_model = "LowThresholdSpikingNonBasket" -> e.vp - Mul(100, PeakU(nr, time))
         [] nr.spike_model = "ThalamicInterneuron" -> e.vp - Mul(80, PeakU(nr, time))
         [] nr.spike_model = "Thalamocortical" -> e.vp + Mul(100, PeakU(nr, time))
         [] OTHER -> e.vp

\* The v a firing step of an extended model stores.
AfterSpikeV(nr, time) ==
    CASE nr.spike_model = "LowThresholdSpikingNonBasket" -> nr.c + Mul(40, PeakU(nr, time))
      [] nr.spike_model = "ThalamicInterneuron" -> nr.c + Mul(80, PeakU(nr, time))
      [] nr.spike_model = "Thalamocortical" -> nr.c - Mul(100, PeakU(nr, time))
      [] OTHER -> nr.c

\* The threshold test of a process(time) call.
ThresholdFires(nr, time) ==
    IF nr.ext = <<>>
    THEN IntegratedV(nr, time) >= 30000
    ELSE IF nr.spike_model \in {"LowThresholdSpikingNonBasket", "ThalamicInterneuron",
                                "Thalamocortical"}
         THEN IntegratedV(nr, time) >= Peak(nr, time)
         ELSE IntegratedV(nr, time) > Peak(nr, time)

\* C14: y is 0.0 or 1.0 in every state; after a process call it is 1.0
\* exactly when the threshold test of that call fired, the spike flag the
\* call returned equals it, and so a 1.0 never outlives a non-firing call.
C14_SpikeIsOneStepPulse ==
    [][/\ neurite.y \in {0, 1000}
       /\ neurite'.y \in {0, 1000}
       /\ out'.op = "process" =>
             /\ out'.spike = neurite'.y
             /\ neurite'.y = 1000 <=> ThresholdFires(neurite, out'.time)]_vars

\* A process call has fired.
C14_Witness ==
    out.op = "process" /\ out.spike = 1000 /\ neurite.y = 1000

----------------------------------------------------------------------------
(* Properties of the electrodes (SpecElec)                                  *)

\* C16: for every electrode variant, after off() the accumulator is 0 and
\* output() returns 0, so that an on() right after it starts from
\* accumulated time 0.
C16_OffClearsAccumulatorAndOutput ==
    hist.op = "off" => el.a = 0 /\ ElectrodeOutput(el) = 0

\* C17: for every electrode variant, right after a process call output()
\* returns what that call returned; process on an inactive electrode returns
\* 0 and leaves it inactive.
C17_OutputIsLastProcessResult ==
    [][hist'.op = "process" =>
          /\ ElectrodeOutput(el') = hist'.ret
          /\ ~el.active => (hist'.ret = 0 /\ ~el'.active)]_vars

\* process has run on an inactive sinusoidal electrode and returned 0.
C17_Witness ==
    /\ hist.op = "process"
    /\ hist.calls >= 1
    /\ ~el.active
    /\ ~hist.clean
    /\ el.kind = "Sinusoidal"
    /\ ElectrodeOutput(el) = 0

\* C18: a PulseElectrode turned on while inactive with accumulator 0 and then
\* only processed returns v on every call that finds the accumulated time at
\* most d, deactivates itself on the first call that finds it past d,
\* returning 0, and returns 0 inactive from then on; on() after that finds
\* it inactive with accumulator 0 again, and the same holds of the next
\* pulse.
C18_PulseThenAutoOff ==
    (el.kind = "Pulse" /\ hist.clean /\ hist.op = "process") =>
        IF (hist.calls - 1) * TimeInc <= el.d
        THEN hist.ret = el.v /\ el.active /\ el.a = hist.calls * TimeInc
        ELSE hist.ret = 0 /\ ~el.active /\ el.a = 0

\* A pulse of duration 500 has ended: three calls returned v, the fourth
\* deactivated the electrode, a fifth found it inactive.
C18_Witness ==
    /\ el.kind = "Pulse"
    /\ el.d = 500000
    /\ hist.clean
    /\ hist.op = "process"
    /\ hist.calls = 5
    /\ ~el.active

\* C19: process never deactivates an active PulsatingElectrode; the call
\* advances the accumulator by TIME_INC and returns v when the accumulated
\* time modulo d + t is at most d, 0 otherwise.
C19_PulsatingDutyCycle ==
    [][(el.kind = "Pulsating" /\ el.active /\ hist'.op = "process") =>
          /\ el'.active
          /\ el'.a = el.a + TimeInc
          /\ hist'.ret = IF el.d + el.t # 0 /\ (el'.a % (el.d + el.t)) <= el.d
                         THEN el.v ELSE 0]_vars

\* An active pulsating electrode is in the "on" part of a later cycle.
C19_Witness ==
    /\ el.kind = "Pulsating"
    /\ el.active
    /\ hist.op = "process"
    /\ el.a > el.d + el.t
    /\ el.d + el.t > 0
    /\ hist.ret = el.v

\* C20: an active PoissonElectrode draws a new k and recomputes t only on
\* the first process call after on() and on the calls where the
\* accumulated time modulo 1000 wraps around; every other call, those past
\* accumulated time 1000 included, leaves t alone.
C20_PoissonRedrawsOnlyAtWindowStart ==
    [][(/\ el.kind = "Poisson"
        /\ el.active
        /\ hist'.op = "process"
        /\ hist.op # "on"
        /\ ~((el'.a % 1000000) < (el.a % 1000000))) =>
          (~hist'.drew /\ el'.t = el.t)]_vars

----------------------------------------------------------------------------
(* Properties of the synapses and of ShortTermPlasticity                    *)

\* C21: ShuntingInhibitorySynapse::new stores s limited to [-2, 1]: an input
\* within the interval unchanged, one below -2 as -2, one above 1 as 1.
C21_ShuntingScalarIsClamped ==
    syn.syn_type = "ShuntingInhibitory" =>
        /\ syn.s >= -2000 /\ syn.s <= 1000
        /\ (synout.arg >= -2000 /\ synout.arg <= 1000) => syn.s = synout.arg
        /\ synout.arg < -2000 => syn.s = -2000
        /\ synout.arg > 1000 => syn.s = 1000

\* C22: learn(spike) returns and stores y = f_new * d_old, f_new being
\* f + p(1 - f) on a spike and f - f/tf otherwise, d_old the d before the
\* call; d becomes d - f_new * d on a spike and d + (1 - d)/td otherwise.
C22_LearnUsesNewFOldD ==
    [][learned'.op = "learn" =>
          LET f_new == IF learned'.spike THEN stp.f + Mul(stp.p, Milli - stp.f)
                                         ELSE stp.f - Div(stp.f, stp.tf)
          IN /\ stp'.f = f_new
             /\ learned'.ret = Mul(f_new, stp.d)
             /\ stp'.y = learned'.ret
             /\ stp'.d = IF learned'.spike THEN stp.d - Mul(f_new, stp.d)
                                           ELSE stp.d + Div(Milli - stp.d, stp.td)
             /\ stp'.tf = stp.tf /\ stp'.td = stp.td /\ stp'.p = stp.p]_vars

\* learn has returned a non-zero y that differs from the product of the
\* stored f and d.
C22_Witness ==
    /\ learned.op = "learn"
    /\ learned.ret # 0
    /\ learned.ret # Mul(stp.f, stp.d)
    /\ learned.spikes > 0

Eps == 2

NearRest == Abs(stp.f) <= Eps /\ Abs(Milli - stp.d) <= Eps

C25_PoissonPairAgrees ==
    pair.ra = pair.rb /\ ElectrodeOutput(pair.a) = ElectrodeOutput(pair.b)

\* Coupling voltages a neurite is imagined with when the influence of vcc
\* and vpc on one step is compared.
Couplings == {-2000, 0, 3000}

\* C26: on a simple model process(time) adds time(0.04v^2 + 5v + 140 - u +
\* 2 vcc) to v, then time a (b v - u) to u with the new v, and fires exactly
\* when v >= 30, storing v = c, u + d and reporting 30; vpc has no influence
\* on (v, u, y) nor on what is returned.
C26_SimpleStepIgnoresVpc ==
    [][(out'.op = "process" /\ neurite.ext = <<>>) =>
          \A cc \in Couplings, pc \in Couplings :
              LET nr == [neurite EXCEPT !.vcc = cc, !.vpc = pc]
                  time == out'.time
                  v1 == nr.v + Mul(time, Mul(Mul(40, nr.v), nr.v) + Mul(5000, nr.v)
                                         + 140000 - nr.u + 2 * cc)
                  u1 == nr.u + Mul(Mul(time, nr.a), Mul(nr.b, v1) - nr.u)
                  r == ProcessOf(nr, time)
              IN /\ r.n.v = IF v1 >= 30000 THEN nr.c ELSE v1
                 /\ r.n.u = IF v1 >= 30000 THEN u1 + nr.d ELSE u1
                 /\ r.n.y = IF v1 >= 30000 THEN 1000 ELSE 0
                 /\ r.volt = IF v1 >= 30000 THEN 30000 ELSE v1
                 /\ r.spike = r.n.y
                 /\ (cc = neurite.vcc /\ pc = neurite.vpc) =>
                        (neurite' = r.n /\ out'.volt = r.volt /\ out'.spike = r.spike)]_vars

\* A simple model has fired in a process call.
C26_Witness ==
    out.op = "process" /\ neurite.ext = <<>> /\ out.spike = 1000 /\ neurite.v = neurite.c

\* Conductances and weights a synapse is imagined with when one process step
\* is compared with its description.
Conductances == {-2000, 0, 4000}
Weights == {0, 500, 1000}

\* C27: ExcitatorySynapse.process decays x to x - x/tx, calls stp.learn once
\* with spike = (presynaptic output > 0), adds x_max * stp.y * w, and returns
\* the new x, which input() returns afterwards.
C27_ExcitatoryProcessSteps ==
    [][(synout'.op = "process" /\ synout'.calls = synout.calls + 1) =>
          LET pre == PresynapticOutput(syn.x_pre)
              l == LearnOf(syn.stp, pre > 0)
          IN /\ synout'.spike = (pre > 0)
             /\ syn'.stp = l.s
             /\ syn'.x = (syn.x + Div(-syn.x, syn.tx)) + Mul(Mul(syn.x_max, l.ret), syn.w)
             /\ synout'.ret = syn'.x
             /\ SynapseInput(syn') = synout'.ret
             /\ \A x0 \in Conductances, w0 \in Weights :
                   LET r == ExcitatoryProcessOf([syn EXCEPT !.x = x0, !.w = w0], pre)
                   IN /\ r.s.x = (x0 + Div(-x0, syn.tx)) + Mul(Mul(syn.x_max, l.ret), w0)
                      /\ r.ret = r.s.x
                      /\ r.s.stp = l.s]_vars

\* process has run with the presynaptic neurite spiking.
C27_Witness ==
    /\ synout.op = "process"
    /\ syn.x_pre = "Neurite"
    /\ synout.spike
    /\ neurite.y = 1000
    /\ synout.calls >= 2

----------------------------------------------------------------------------
(* Properties of the parent and child links (Spec)                          *)

\* C29: parent and child links agree in every state: c in n's child list
\* has parent n, and c with parent n is in n's child list.
C29_ParentAndChildAgree ==
    /\ \A n \in Neurites : \A i \in 1..Len(child[n]) : parent[child[n][i]] = n
    /\ \A c \in Neurites :
          parent[c] # None => \E i \in 1..Len(child[parent[c]]) : child[parent[c]][i] = c

\* C30: each neurite occurs at most once over all child lists.
C30_ListedAtMostOnce ==
    \A c \in Neurites :
        Cardinality({<<n, i>> \in Neurites \X (1..MaxEdges) :
                        i <= Len(child[n]) /\ child[n][i] = c}) <= 1

----------------------------------------------------------------------------
====
